---------------------------- MODULE Spec2Model ----------------------------
(***************************************************************************)
(* A model of the visibility policy and the search engine of fictionsource *)
(* (src/models.py, src/search.py, src/app.py).                             *)
(*                                                                         *)
(* Text is modelled as a sequence of one-character strings, so that        *)
(* prefixes, splits and lengths are computed the way the Python code       *)
(* computes them.  Rows of the database tables are records held in         *)
(* sequences; the position of a record is its primary key (id).            *)
(***************************************************************************)
EXTENDS Integers, Sequences, FiniteSets, TLC

VARIABLES
    users,      \* table "users":    id -> [username, flags]
    stories,    \* table "stories":  id -> [author_id, flags, modified, posted,
                \*                          title, summary, tags, favorited_by, followed_by]
    chapters,   \* table "chapters": id -> [story_id, flags, index, notes_null,
                \*                           author_notes, text]
    tags,       \* table "tags":     id -> [type, name]
    pc,         \* "idle": no call in progress; "parsing": search_page is in its
                \* parser loop; "done": a call has returned into ret
    ret,        \* the last call: [op, args, result]
    parser      \* the locals of search_page: [query, negate, args]

vars == <<users, stories, chapters, tags, pc, ret, parser>>

-----------------------------------------------------------------------------
(* Bounds of the model.                                                    *)

MaxVisStories == 2     \* stories in the store of the visibility specification

-----------------------------------------------------------------------------
(* Flag bits.                                                              *)

ALLOW_RISQUE     == 1
StoryPRIVATE     == 1
StoryPROTECTED   == 2
CAN_COMMENT      == 4
IS_RISQUE        == 8
ChapterPRIVATE   == 1
ChapterPROTECTED == 2

\* Python's None where an Optional[User] id is expected (user ids start at 1).
None == 0

RECURSIVE BitAnd(_, _)
BitAnd(a, b) ==
    IF a = 0 \/ b = 0 THEN 0
    ELSE (a % 2) * (b % 2) + 2 * BitAnd(a \div 2, b \div 2)

RECURSIVE BitOr(_, _)
BitOr(a, b) ==
    IF a = 0 THEN b
    ELSE IF b = 0 THEN a
    ELSE (IF a % 2 = 1 \/ b % 2 = 1 THEN 1 ELSE 0) + 2 * BitOr(a \div 2, b \div 2)

-----------------------------------------------------------------------------
(* Properties of the rows.                                                 *)

UserIds    == DOMAIN users
StoryIds   == DOMAIN stories
ChapterIds == DOMAIN chapters
Viewers    == {None} \cup UserIds

allow_risque(u) == BitAnd(users[u].flags, ALLOW_RISQUE) # 0

StoryPrivate(s)   == BitAnd(stories[s].flags, StoryPRIVATE) # 0
StoryProtected(s) == BitAnd(stories[s].flags, StoryPROTECTED) # 0
is_risque(s)      == BitAnd(stories[s].flags, IS_RISQUE) # 0

-----------------------------------------------------------------------------
(* The visibility policy.                                                  *)

\* Story.visible with the risque clause of the author branch dropped.
StoryVisibleNoAuthorRisque(s, user, ignore_risque) ==
    IF user # None
    THEN IF user = stories[s].author_id
         THEN TRUE
         ELSE ~(StoryPrivate(s) \/ StoryProtected(s) \/
                (is_risque(s) /\ ~allow_risque(user) /\ ~ignore_risque))
    ELSE ~(StoryPrivate(s) \/ StoryProtected(s) \/ (is_risque(s) /\ ~ignore_risque))

\* Story.visible with the risque clause dropped for the anonymous viewer.
StoryVisibleAnonymousRisque(s, user, ignore_risque) ==
    IF user # None
    THEN IF user = stories[s].author_id
         THEN ~(is_risque(s) /\ ~allow_risque(user) /\ ~ignore_risque)
         ELSE ~(StoryPrivate(s) \/ StoryProtected(s) \/
                (is_risque(s) /\ ~allow_risque(user) /\ ~ignore_risque))
    ELSE ~(StoryPrivate(s) \/ StoryProtected(s))

StoryVisible(s, user, ignore_risque) ==
    IF user # None
    THEN IF user = stories[s].author_id
         THEN ~(is_risque(s) /\ ~allow_risque(user) /\ ~ignore_risque)
         ELSE ~(StoryPrivate(s) \/ StoryProtected(s) \/
                (is_risque(s) /\ ~allow_risque(user) /\ ~ignore_risque))
    ELSE ~(StoryPrivate(s) \/ StoryProtected(s) \/ (is_risque(s) /\ ~ignore_risque))

\* Story.visible_stories with the author's own stories let through.
visible_stories_own(user) ==
    LET q == {s \in StoryIds :
                 \/ BitAnd(stories[s].flags, BitOr(StoryPRIVATE, StoryPROTECTED)) = 0
                 \/ stories[s].author_id = user}
    IN  IF user = None \/ ~allow_risque(user)
        THEN {s \in q : BitAnd(stories[s].flags, IS_RISQUE) = 0}
        ELSE q

\* Story.visible_stories with the risque filter left out for the anonymous
\* viewer.
visible_stories_anonymous_risque(user) ==
    LET q == {s \in StoryIds :
                 BitAnd(stories[s].flags, BitOr(StoryPRIVATE, StoryPROTECTED)) = 0}
    IN  IF user # None /\ ~allow_risque(user)
        THEN {s \in q : BitAnd(stories[s].flags, IS_RISQUE) = 0}
        ELSE q

visible_stories(user) ==
    LET q == {s \in StoryIds :
                 BitAnd(stories[s].flags, BitOr(StoryPRIVATE, StoryPROTECTED)) = 0}
    IN  IF user = None \/ ~allow_risque(user)
        THEN {s \in q : BitAnd(stories[s].flags, IS_RISQUE) = 0}
        ELSE q

self_visible(c) ==
    BitAnd(chapters[c].flags, BitOr(ChapterPRIVATE, ChapterPROTECTED)) = 0

\* Chapter.visible without the author shortcut.
ChapterVisibleNoAuthor(c, user, ignore_risque) ==
    IF ~StoryVisible(chapters[c].story_id, user, ignore_risque)
    THEN FALSE
    ELSE self_visible(c)

ChapterVisible(c, user, ignore_risque) ==
    IF user # None /\ user = stories[chapters[c].story_id].author_id
    THEN TRUE
    ELSE IF ~StoryVisible(chapters[c].story_id, user, ignore_risque)
    THEN FALSE
    ELSE self_visible(c)

-----------------------------------------------------------------------------
(* Text: a sequence of one-character strings.                              *)

S_amy == <<"a", "m", "y">>
S_bob == <<"b", "o", "b">>
S_cyd == <<"c", "y", "d">>
Empty == <<>>

LowerCase ==
    <<"a", "b", "c", "d", "e", "f", "g", "h", "i", "j", "k", "l", "m",
      "n", "o", "p", "q", "r", "s", "t", "u", "v", "w", "x", "y", "z">>
UpperCase ==
    <<"A", "B", "C", "D", "E", "F", "G", "H", "I", "J", "K", "L", "M",
      "N", "O", "P", "Q", "R", "S", "T", "U", "V", "W", "X", "Y", "Z">>

Contains(str, c) == \E i \in DOMAIN str : str[i] = c
IndexOf(str, c)  == CHOOSE i \in DOMAIN str : str[i] = c /\ \A j \in 1..(i - 1) : str[j] # c

\* str.upper() and str.lower(), character by character.
UpperChar(c) == IF Contains(LowerCase, c) THEN UpperCase[IndexOf(LowerCase, c)] ELSE c
LowerChar(c) == IF Contains(UpperCase, c) THEN LowerCase[IndexOf(UpperCase, c)] ELSE c
Upper(str) == [i \in DOMAIN str |-> UpperChar(str[i])]
Lower(str) == [i \in DOMAIN str |-> LowerChar(str[i])]

\* ord(c) of the characters the model uses.
Ord(c) ==
    IF Contains(LowerCase, c) THEN 96 + IndexOf(LowerCase, c)
    ELSE IF Contains(UpperCase, c) THEN 64 + IndexOf(UpperCase, c)
    ELSE CASE c = " "  -> 32
           [] c = "!"  -> 33
           [] c = "\"" -> 34
           [] c = "#"  -> 35
           [] c = "%"  -> 37
           [] c = "'"  -> 39
           [] c = "/"  -> 47
           [] c = "0"  -> 48
           [] c = "1"  -> 49
           [] c = ":"  -> 58
           [] c = "\\" -> 92
           [] c = "_"  -> 95
           [] c = "~"  -> 126

StartsWith(str, c) == Len(str) > 0 /\ str[1] = c

\* str.split(':', 1): the text before and after the first colon.
BeforeColon(str) == SubSeq(str, 1, IndexOf(str, ":") - 1)
AfterColon(str)  == SubSeq(str, IndexOf(str, ":") + 1, Len(str))

\* The Unicode space and format characters both validators reject.
InvalidUnicode ==
    {5760, 6158} \cup (8192..8205) \cup {8232, 8233, 8288, 8239, 8287, 12288, 65279}

USERNAME_LENGTH == 32

InvalidUsernameChars ==
    (0..47) \cup (58..64) \cup {91, 92, 93, 94, 96, 123, 124, 125, 126, 127, 160}
    \cup InvalidUnicode

\* User.is_valid_username accepting any character.
is_valid_username_any_char(username) ==
    ~(Len(username) > USERNAME_LENGTH \/ Len(username) < 1)

\* User.is_valid_username asking for as many characters as a tag name has.
is_valid_username_min_three(username) ==
    IF Len(username) > USERNAME_LENGTH \/ Len(username) < 3
    THEN FALSE
    ELSE \A i \in DOMAIN username : Ord(username[i]) \notin InvalidUsernameChars

is_valid_username(username) ==
    IF Len(username) > USERNAME_LENGTH \/ Len(username) < 1
    THEN FALSE
    ELSE \A i \in DOMAIN username : Ord(username[i]) \notin InvalidUsernameChars

-----------------------------------------------------------------------------
(* The tag registry.                                                       *)

NAME_MIN_LENGTH == 3
NAME_LENGTH     == 96

\* Tag.Type.__members__: the member's value is its position minus one.
TypeMembers ==
    << <<"G", "E", "N", "E", "R", "I", "C">>,
       <<"G", "E", "N", "R", "E">>,
       <<"C", "A", "T", "E", "G", "O", "R", "Y">>,
       <<"C", "H", "A", "R", "A", "C", "T", "E", "R">>,
       <<"S", "E", "R", "I", "E", "S">> >>

TypeValue(member) == (CHOOSE i \in DOMAIN TypeMembers : TypeMembers[i] = member) - 1
GENERIC == TypeValue(TypeMembers[1])

tag_types == {Lower(TypeMembers[i]) : i \in DOMAIN TypeMembers}

is_valid_type(type) == type \in tag_types

InvalidNameChars ==
    (0..47) \cup (58..64) \cup {91, 92, 93, 94, 96} \cup InvalidUnicode

is_valid_name(name) ==
    IF Len(name) > NAME_LENGTH \/ Len(name) < NAME_MIN_LENGTH
    THEN FALSE
    ELSE \A i \in DOMAIN name : Ord(name[i]) \notin InvalidNameChars

TagIds == DOMAIN tags

\* Tag.query.filter_by(_type=ttype, name=name).first(): the matching row of
\* lowest id, None when there is none.
TagFirst(ttype, name) ==
    LET found == {t \in TagIds : tags[t].type = ttype /\ tags[t].name = name}
    IN  IF found = {} THEN None
        ELSE CHOOSE t \in found : \A u \in found : t <= u

\* Tag.get(query_name) for one query name: [raised, tag]; raised stands for the
\* ValueError, tag is the row's id or None.
TagGet(query_name) ==
    LET hash     == StartsWith(query_name, "#")
        colon    == Contains(query_name, ":")
        notype   == ~hash /\ ~colon
        ttype    == IF hash THEN Lower(TypeMembers[1])
                    ELSE IF colon THEN BeforeColon(query_name)
                    ELSE Empty
        name     == IF hash THEN Tail(query_name)
                    ELSE IF colon THEN AfterColon(query_name)
                    ELSE query_name
        badtype  == ~notype /\ ~is_valid_type(ttype)
        badname  == \/ Len(name) < NAME_MIN_LENGTH
                    \/ Len(name) > NAME_LENGTH
                    \/ ~is_valid_name(name)
        typeval  == IF notype THEN GENERIC ELSE TypeValue(Upper(ttype))
    IN  IF notype \/ badtype \/ badname
        THEN [raised |-> TRUE, tag |-> None]
        ELSE [raised |-> FALSE, tag |-> TagFirst(typeval, name)]

-----------------------------------------------------------------------------
(* The search: SearchResults.__init__.                                     *)
(*                                                                         *)
(* An argument that arrives as JSON is a record [t, v]: t is the Python    *)
(* type of the value ("int", "bool", "str", "null") and v the value (of a  *)
(* bool 0 or 1, of null 0).  The six collections are sets of texts.        *)

Min(a, b) == IF a < b THEN a ELSE b

JInt(n)  == [t |-> "int", v |-> n]
JBool(b) == [t |-> "bool", v |-> IF b THEN 1 ELSE 0]
JStr(s)  == [t |-> "str", v |-> s]
JNull    == [t |-> "null", v |-> 0]

\* SearchSortEnum.good_values()
good_values == {"modified", "posted", "favorites", "follows"}

\* Lines 162-165.
OffsetErrors(a) ==
    IF a.offset.t # "int" THEN << "'offset' must be an integer." >>
    ELSE IF a.offset.v < 0 THEN << "'offset' must be greater than zero." >>
    ELSE << >>

\* Lines 167-170.
CountErrors(a) ==
    IF a.count.t # "int" THEN << "'count' must be an integer." >>
    ELSE IF a.count.v < 1 THEN << "'count' must be greater than 1." >>
    ELSE << >>

\* Lines 172-177.
SortByErrors(a) ==
    IF a.sort_by.t # "str" /\ a.sort_by.t # "null"
    THEN << "'sort_by' must be a string." >>
    ELSE IF a.sort_by.t = "null" THEN << >>
    ELSE IF a.sort_by.v \notin good_values
    THEN << "'sort_by' must be one of: modified, posted, favorites, follows" >>
    ELSE << >>

\* Lines 179-180.
DescendingErrors(a) ==
    IF a.descending.t # "bool" THEN << "'descending' must be a boolean." >> ELSE << >>

\* Lines 182-183.
FilterRisqueErrors(a) ==
    IF a.filter_risque.t # "null" /\ a.filter_risque.t # "bool"
    THEN << "'filter_risque' must be a boolean or null." >>
    ELSE << >>

\* Lines 188-194: one message for each of the two collections.
UsersErrors(a) ==
    (IF \E x \in a.include_users : ~is_valid_username(x)
     THEN << "Items in 'include_users' must be valid usernames." >> ELSE << >>)
    \o
    (IF \E x \in a.exclude_users : ~is_valid_username(x)
     THEN << "Items in 'exclude_users' must be valid usernames." >> ELSE << >>)

\* Lines 196-202: one message for each of the two collections.
PhrasesErrors(a) ==
    (IF \E x \in a.include_phrases : Len(x) < 3
     THEN << "Items in 'include_phrases' must be at least 3 characters long." >>
     ELSE << >>)
    \o
    (IF \E x \in a.exclude_phrases : Len(x) < 3
     THEN << "Items in 'exclude_phrases' must be at least 3 characters long." >>
     ELSE << >>)

\* A validation that stops at the first message.
ValidationErrorsFailFast(a) ==
    LET all == OffsetErrors(a) \o CountErrors(a) \o SortByErrors(a) \o DescendingErrors(a)
               \o FilterRisqueErrors(a) \o UsersErrors(a) \o PhrasesErrors(a)
    IN  SubSeq(all, 1, 1)

\* The list "errors" when line 204 is reached: every message, in the order the
\* code appends them.
ValidationErrors(a) ==
    OffsetErrors(a) \o CountErrors(a) \o SortByErrors(a) \o DescendingErrors(a)
    \o FilterRisqueErrors(a) \o UsersErrors(a) \o PhrasesErrors(a)

\* check_set(name, collection, lambda x: Tag.get(x).id) on a list or set of
\* texts: an item whose Tag.get raises, or returns None (so that .id raises),
\* is skipped by "except Exception: continue".
check_set_tags(collection) ==
    {TagGet(x).tag : x \in {y \in collection : ~TagGet(y).raised /\ TagGet(y).tag # None}}

\* str.replace(old, new) for a one-character old.
RECURSIVE Replace(_, _, _)
Replace(str, old, new) ==
    IF str = << >> THEN << >>
    ELSE (IF Head(str) = old THEN new ELSE << Head(str) >>) \o Replace(Tail(str), old, new)

\* The pattern collate_phrase_clauses hands to ilike: the phrase with '/', '%'
\* and "'" escaped by '/', between "'%" and "%'".  The quotes are part of the
\* bound pattern.
LikePattern(phrase) ==
    << "'", "%" >>
    \o Replace(Replace(Replace(phrase, "/", << "/", "/" >>), "%", << "/", "%" >>),
               "'", << "/", "'" >>)
    \o << "%", "'" >>

\* text ILIKE pattern ESCAPE '/': '%' matches any run of characters, '_' any
\* one character, '/' makes the next pattern character literal; letters match
\* whatever their case.
RECURSIVE Like(_, _)
Like(text, pattern) ==
    IF pattern = << >> THEN text = << >>
    ELSE IF Head(pattern) = "%"
    THEN \E k \in 0..Len(text) : Like(SubSeq(text, k + 1, Len(text)), Tail(pattern))
    ELSE IF Head(pattern) = "/" /\ Len(pattern) > 1
    THEN /\ text # << >>
         /\ LowerChar(Head(text)) = LowerChar(pattern[2])
         /\ Like(Tail(text), Tail(Tail(pattern)))
    ELSE /\ text # << >>
         /\ (Head(pattern) = "_" \/ LowerChar(Head(text)) = LowerChar(Head(pattern)))
         /\ Like(Tail(text), Tail(pattern))

\* One clause of collate_phrase_clauses on the row (story s, chapter c).  A NULL
\* author_notes is the text Empty in a row with notes_null set.
PhraseClause(phrase, s, c) ==
    \/ Like(stories[s].title, LikePattern(phrase))
    \/ Like(stories[s].summary, LikePattern(phrase))
    \/ chapters[c].notes_null
    \/ Like(chapters[c].author_notes, LikePattern(phrase))
    \/ Like(chapters[c].text, LikePattern(phrase))

collate_phrase_clauses(phrases, s, c) == \E p \in phrases : PhraseClause(p, s, c)

\* Lines 207-233 alone: the rows before the phrase filter and the risque filter.
FilteredRowsAnyRisque(a, include_tags, exclude_tags) ==
    LET base == visible_stories(a.user)
        byTags == {s \in base :
                     /\ include_tags = {} \/ stories[s].tags \cap include_tags # {}
                     /\ exclude_tags = {} \/ stories[s].tags \cap exclude_tags = {}}
        byUsers == {s \in byTags :
                     /\ a.include_users = {}
                        \/ users[stories[s].author_id].username \in a.include_users
                     /\ a.exclude_users = {}
                        \/ users[stories[s].author_id].username \notin a.exclude_users}
    IN  [story : byUsers, chapter : {None}]

\* The rows of the query after lines 207-251: [story, chapter], chapter None
\* when the chapters are not joined.
FilteredRows(a, include_tags, exclude_tags) ==
    LET base == visible_stories(a.user)
        byTags == {s \in base :
                     /\ include_tags = {} \/ stories[s].tags \cap include_tags # {}
                     /\ exclude_tags = {} \/ stories[s].tags \cap exclude_tags = {}}
        byUsers == {s \in byTags :
                     /\ a.include_users = {}
                        \/ users[stories[s].author_id].username \in a.include_users
                     /\ a.exclude_users = {}
                        \/ users[stories[s].author_id].username \notin a.exclude_users}
        joined == IF a.include_phrases \cup a.exclude_phrases # {}
                  THEN {r \in [story : byUsers, chapter : ChapterIds] :
                          /\ chapters[r.chapter].story_id = r.story
                          /\ BitAnd(chapters[r.chapter].flags,
                                    BitOr(ChapterPRIVATE, ChapterPROTECTED)) = 0
                          /\ a.include_phrases = {}
                             \/ collate_phrase_clauses(a.include_phrases, r.story, r.chapter)
                          /\ a.exclude_phrases = {}
                             \/ ~collate_phrase_clauses(a.exclude_phrases, r.story, r.chapter)}
                  ELSE [story : byUsers, chapter : {None}]
    IN  IF a.filter_risque.t = "bool" /\ a.filter_risque.v = 1
        THEN {r \in joined : BitAnd(stories[r.story].flags, IS_RISQUE) = 0}
        ELSE IF a.filter_risque.t = "bool" /\ a.filter_risque.v = 0
        THEN {r \in joined : BitAnd(stories[r.story].flags, IS_RISQUE) # 0}
        ELSE joined

\* join(Story.favorited_by / Story.followed_by, isouter=True).group_by(Story.id)
\* with ordering = func.count(User.id): one row per story, keyed by the number
\* of joined rows whose user is not NULL.
GroupedByStory(rows, fans) ==
    {[story |-> s, chapter |-> None,
      key |-> Cardinality({r \in rows : r.story = s}) * Cardinality(fans[s])] :
        s \in {r.story : r \in rows}}

\* Lines 253-263: the rows with their ordering key.
KeyedRows(rows, sort_by) ==
    IF sort_by = "modified"
    THEN {[story |-> r.story, chapter |-> r.chapter, key |-> stories[r.story].modified] :
            r \in rows}
    ELSE IF sort_by = "posted"
    THEN {[story |-> r.story, chapter |-> r.chapter, key |-> stories[r.story].posted] :
            r \in rows}
    ELSE IF sort_by = "favorites"
    THEN GroupedByStory(rows, [s \in StoryIds |-> stories[s].favorited_by])
    ELSE GroupedByStory(rows, [s \in StoryIds |-> stories[s].followed_by])

\* Query.distinct left out: every joined row stays.
NoDistinct(keyed) == keyed

\* Query.distinct(Story.id, ordering): DISTINCT ON (stories.id, ordering) keeps
\* one row for each (story, key) pair.
Distinct(keyed) == {[story |-> r.story, chapter |-> None, key |-> r.key] : r \in keyed}

\* The order of the rows: by the key, descending or ascending; DISTINCT ON sorts
\* the rows of equal key by stories.id (then, were the rows not distinct, by
\* chapter).
Before(x, y, descending) ==
    IF x.key # y.key
    THEN IF descending THEN x.key > y.key ELSE x.key < y.key
    ELSE IF x.story # y.story THEN x.story < y.story
    ELSE x.chapter < y.chapter

RECURSIVE OrderBy(_, _)
OrderBy(rows, descending) ==
    IF rows = {} THEN << >>
    ELSE LET first == CHOOSE x \in rows : \A y \in rows \ {x} : Before(x, y, descending)
         IN  << first.story >> \o OrderBy(rows \ {first}, descending)

\* Query.slice(start, stop).all(): OFFSET start LIMIT stop - start.
Slice(list, start, stop) == SubSeq(list, start + 1, Min(stop, Len(list)))

\* Lines 271-274 without the clamp of the slice start.
PageUnclamped(list, offset, count) == Slice(list, offset, offset + count)

\* Lines 270-274.
Page(list, offset, count) ==
    Slice(list,
          Min(offset, IF Len(list) > 0 THEN Len(list) - 1 ELSE 0),
          offset + count)

\* Lines 276-277 with start left at offset + 1.
WindowUnclamped(num_results, offset, count) ==
    [start |-> offset + 1, end |-> Min(offset + count, num_results)]

\* Lines 276-277.
Window(num_results, offset, count) ==
    [start |-> Min(offset + 1, num_results), end |-> Min(offset + count, num_results)]

Failure(status, errors) ==
    [status |-> status, errors |-> errors, results |-> << >>,
     num_results |-> None, start |-> None, end |-> None]

\* The sorted, distinct rows of a search whose arguments passed validation.
SortedStories(a) ==
    LET sort_by == IF a.sort_by.t = "null" THEN "modified" ELSE a.sort_by.v
        rows    == FilteredRows(a, check_set_tags(a.include_tags),
                                   check_set_tags(a.exclude_tags))
    IN  OrderBy(Distinct(KeyedRows(rows, sort_by)), a.descending.v = 1)

\* Both Story.author (lines 227-228) and Story.favorited_by / followed_by (lines
\* 258-263) join the table "users" under its own name; PostgreSQL rejects a FROM
\* clause that names a table twice, and the ProgrammingError is no ValueError.
JoinsUsersTwice(a) ==
    /\ a.include_users \cup a.exclude_users # {}
    /\ a.sort_by.t = "str" /\ a.sort_by.v \in {"favorites", "follows"}

SearchResults(a) ==
    LET errors == ValidationErrors(a)
    IN  IF Len(errors) > 0 THEN Failure("ValueError", errors)
        ELSE IF JoinsUsersTwice(a) THEN Failure("ProgrammingError", << >>)
        ELSE LET list == SortedStories(a)
                 w    == Window(Len(list), a.offset.v, a.count.v)
             IN  [status |-> "ok", errors |-> << >>,
                  results |-> Page(list, a.offset.v, a.count.v),
                  num_results |-> Len(list), start |-> w.start, end |-> w.end]

-----------------------------------------------------------------------------
(* Calls and their results.                                                *)

NoCall == [op |-> "none", args |-> <<>>, result |-> FALSE]

\* search_page is not running: its locals do not exist.
NoParse == [query |-> << >>, negate |-> FALSE, args |-> << >>]

\* The response has been sent: the next request may come.
Return ==
    /\ pc = "done"
    /\ pc' = "idle"
    /\ ret' = NoCall
    /\ UNCHANGED <<users, stories, chapters, tags, parser>>

-----------------------------------------------------------------------------
(* The visibility specification: a store of stories with any flags, one   *)
(* chapter, a user who allows risque content and one who does not; the     *)
(* visibility functions are called on it.                                  *)

\* amy allows risque content, bob does not.
VisUsers ==
    << [username |-> S_amy, flags |-> ALLOW_RISQUE],
       [username |-> S_bob, flags |-> 0] >>

StoryRow(author, flags) ==
    [author_id |-> author, flags |-> flags, modified |-> 0, posted |-> 0,
     title |-> Empty, summary |-> Empty,
     tags |-> {}, favorited_by |-> {}, followed_by |-> {}]

\* A NULL author_notes is notes_null = TRUE (author_notes is then Empty).
ChapterRow(story, flags, index, notes_null, notes, text) ==
    [story_id |-> story, flags |-> flags, index |-> index,
     notes_null |-> notes_null, author_notes |-> notes, text |-> text]

\* Every combination of the PRIVATE, PROTECTED and IS_RISQUE bits, with
\* CAN_COMMENT as Story.Flags.DEFAULT sets it.
VisStoryFlags == {BitOr(CAN_COMMENT, f) : f \in {0, 1, 2, 3, 8, 9, 10, 11}}

VisStoryPool == {StoryRow(a, f) : a \in DOMAIN VisUsers, f \in VisStoryFlags}

InitVis ==
    /\ users = VisUsers
    /\ \E n \in 1..MaxVisStories : stories \in [1..n -> VisStoryPool]
    /\ \E s \in DOMAIN stories, f \in 0..3 :
          chapters = << ChapterRow(s, f, 0, TRUE, Empty, Empty) >>
    /\ tags = <<>>
    /\ pc = "idle"
    /\ ret = NoCall
    /\ parser = NoParse

CallStoryVisible ==
    /\ pc = "idle"
    /\ \E s \in StoryIds, user \in Viewers, ignore_risque \in BOOLEAN :
          ret' = [op |-> "Story.visible", args |-> <<s, user, ignore_risque>>,
                  result |-> StoryVisible(s, user, ignore_risque)]
    /\ pc' = "done"
    /\ UNCHANGED <<users, stories, chapters, tags, parser>>

CallChapterVisible ==
    /\ pc = "idle"
    /\ \E c \in ChapterIds, user \in Viewers, ignore_risque \in BOOLEAN :
          ret' = [op |-> "Chapter.visible", args |-> <<c, user, ignore_risque>>,
                  result |-> ChapterVisible(c, user, ignore_risque)]
    /\ pc' = "done"
    /\ UNCHANGED <<users, stories, chapters, tags, parser>>

CallVisibleStories ==
    /\ pc = "idle"
    /\ \E user \in Viewers :
          ret' = [op |-> "Story.visible_stories", args |-> <<user>>,
                  result |-> visible_stories(user)]
    /\ pc' = "done"
    /\ UNCHANGED <<users, stories, chapters, tags, parser>>

NextVis == CallStoryVisible \/ CallChapterVisible \/ CallVisibleStories \/ Return

SpecVis == InitVis /\ [][NextVis]_vars

-----------------------------------------------------------------------------
(* Claims about the visibility policy.                                     *)

C2_VisibleStories ==
    (pc = "done" /\ ret.op = "Story.visible_stories") =>
        LET viewer == ret.args[1]
            allows == viewer # None /\ allow_risque(viewer)
        IN  /\ ret.result =
                  {s \in StoryIds :
                      /\ stories[s].flags % 4 = 0
                      /\ (allows \/ (stories[s].flags \div IS_RISQUE) % 2 = 0)}
            /\ \A s \in ret.result : ~StoryPrivate(s)

\* The author of a private story asks for the list; it holds another story but
\* not their private one.
C2_Witness ==
    /\ pc = "done" /\ ret.op = "Story.visible_stories"
    /\ \E s \in StoryIds :
          /\ stories[s].author_id = ret.args[1]
          /\ StoryPrivate(s)
          /\ s \notin ret.result
    /\ ret.result # {}

\* C3: Chapter.visible is true whenever the viewer is the author of the parent
\* story; for every other viewer or None it is true iff the parent story is
\* visible to the viewer (Story.visible, same ignore_risque) and the chapter has
\* neither PRIVATE nor PROTECTED set.
C3_ChapterVisible ==
    (pc = "done" /\ ret.op = "Chapter.visible") =>
        LET c      == ret.args[1]
            viewer == ret.args[2]
            ign    == ret.args[3]
            parent == chapters[c].story_id
        IN  IF viewer # None /\ viewer = stories[parent].author_id
            THEN ret.result = TRUE
            ELSE ret.result =
                    (/\ StoryVisible(parent, viewer, ign)
                     /\ chapters[c].flags % 4 = 0)

\* The author is shown a private chapter of their own private, risque story
\* although they do not allow risque content.
C3_Witness ==
    /\ pc = "done" /\ ret.op = "Chapter.visible"
    /\ ret.args[2] = stories[chapters[ret.args[1]].story_id].author_id
    /\ ~allow_risque(ret.args[2])
    /\ ~ret.args[3]
    /\ is_risque(chapters[ret.args[1]].story_id)
    /\ StoryPrivate(chapters[ret.args[1]].story_id)
    /\ ~self_visible(ret.args[1])
    /\ ret.result = TRUE

-----------------------------------------------------------------------------
(* The search action and the stores it runs on.                            *)

MaxStories == 2     \* stories in the store of a search specification
MaxOffset  == 3     \* largest offset asked for
MaxCount   == 2     \* largest count asked for

S_abc == <<"a", "b", "c">>
S_abd == <<"a", "b", "d">>

\* amy allows risque content; bob and cyd do not.
SearchUsers ==
    << [username |-> S_amy, flags |-> ALLOW_RISQUE],
       [username |-> S_bob, flags |-> 0],
       [username |-> S_cyd, flags |-> 0] >>

\* One tag, the GENERIC tag "abc" (query name "#abc").
SearchTags == << [type |-> GENERIC, name |-> S_abc] >>

\* SearchResults(user, offset, count, ...) is constructed.
Search(a) ==
    /\ pc = "idle"
    /\ ret' = [op |-> "SearchResults", args |-> a, result |-> SearchResults(a)]
    /\ pc' = "done"
    /\ UNCHANGED <<users, stories, chapters, tags, parser>>

\* The chapters of the stories i, i+1, ...: story i has nchap[i] public chapters
\* with the text "abc" and no author notes (Chapter.new's default).
RECURSIVE ChaptersFrom(_, _)
ChaptersFrom(nchap, i) ==
    IF i > Len(nchap) THEN << >>
    ELSE [j \in 1..nchap[i] |-> ChapterRow(i, 0, j - 1, TRUE, Empty, S_abc)]
         \o ChaptersFrom(nchap, i + 1)

-----------------------------------------------------------------------------
(* The pagination specification: stories of amy, public (or private, to be *)
(* filtered out), modified at one of two times, favorited by nobody or by  *)
(* bob and cyd, with one or two public chapters; searches by an anonymous  *)
(* viewer at every offset and count, sorted four ways, with and without a  *)
(* phrase (which joins the chapters).                                      *)

PageProfiles ==
    {[flags |-> 5, modified |-> 1, favorited_by |-> {}, nchap |-> 1]}
    \cup [flags : {4}, modified : {1, 2}, favorited_by : {{}, {2, 3}}, nchap : {1, 2}]

PageStory(prof) ==
    [author_id |-> 1, flags |-> prof.flags, modified |-> prof.modified, posted |-> 0,
     title |-> S_abd, summary |-> Empty,
     tags |-> {}, favorited_by |-> prof.favorited_by, followed_by |-> {}]

PageArgs ==
    [user : {None},
     offset : {JInt(n) : n \in 0..MaxOffset},
     count : {JInt(n) : n \in 1..MaxCount},
     sort_by : {JNull} \cup {JStr(s) : s \in good_values},
     descending : {JBool(TRUE), JBool(FALSE)},
     filter_risque : {JBool(TRUE)},
     include_tags : {{}}, exclude_tags : {{}},
     include_users : {{}}, exclude_users : {{}},
     include_phrases : {{}, {S_abc}}, exclude_phrases : {{}}]

InitPage ==
    /\ users = SearchUsers
    /\ tags = SearchTags
    /\ \E n \in 0..MaxStories : \E prof \in [1..n -> PageProfiles] :
          /\ stories = [i \in 1..n |-> PageStory(prof[i])]
          /\ chapters = ChaptersFrom([i \in 1..n |-> prof[i].nchap], 1)
    /\ pc = "idle"
    /\ ret = NoCall
    /\ parser = NoParse

NextPage == (pc = "idle" /\ \E a \in PageArgs : Search(a)) \/ Return

SpecPage == InitPage /\ [][NextPage]_vars

Searched == pc = "done" /\ ret.op = "SearchResults"

\* C4: for every search that passes validation, start = 0 and end = 0 iff
\* num_results = 0; and when num_results > 0, 1 <= start <= end <= num_results.
C4_Window ==
    (Searched /\ ret.result.status = "ok") =>
        LET r == ret.result
        IN  /\ (r.start = 0 /\ r.end = 0) <=> (r.num_results = 0)
            /\ r.num_results > 0 =>
                 (1 <= r.start /\ r.start <= r.end /\ r.end <= r.num_results)

\* A search whose offset lies beyond the results: start is clamped.
C4_Witness ==
    /\ Searched /\ ret.result.status = "ok"
    /\ ret.result.num_results > 1
    /\ ret.args.offset.v > ret.result.num_results
    /\ ret.result.start = ret.result.num_results

\* C5 as claimed: a valid search whose offset is at or beyond the number of
\* matching stories returns an empty page and raises no error.
C5_EmptyPage ==
    (Searched /\ ValidationErrors(ret.args) = << >>
              /\ ret.result.num_results > 0
              /\ ret.args.offset.v >= ret.result.num_results) =>
        (ret.result.status = "ok" /\ ret.result.results = << >>)

\* C5 as amended: a search that returns with offset >= num_results > 0 returns
\* a page of one story, the last of the sorted results, and start = end =
\* num_results.
C5_LastStory ==
    (Searched /\ ret.result.status = "ok"
              /\ ret.result.num_results > 0
              /\ ret.args.offset.v >= ret.result.num_results) =>
        /\ ret.result.results =
              << SortedStories(ret.args)[ret.result.num_results] >>
        /\ ret.result.start = ret.result.num_results
        /\ ret.result.end = ret.result.num_results

C5_Witness ==
    /\ Searched /\ ret.result.status = "ok"
    /\ ret.result.num_results = 2
    /\ ret.args.offset.v = 3
    /\ Len(ret.result.results) = 1

\* The pages of the search with arguments a at the offsets k * count, from
\* page k on, one after the other.
RECURSIVE PagesFrom(_, _, _)
PagesFrom(a, k, num_results) ==
    IF k * a.count.v >= num_results THEN << >>
    ELSE SearchResults([a EXCEPT !.offset = JInt(k * a.count.v)]).results
         \o PagesFrom(a, k + 1, num_results)

\* C6: with the store and all arguments but the offset fixed, the pages at the
\* offsets 0, count, 2*count, ... below num_results, one after the other, are the
\* full sorted result: every matching story once, none missing.
C6_Pagination ==
    (Searched /\ ret.result.status = "ok" /\ ret.args.offset.v = 0) =>
        LET a        == ret.args
            all      == PagesFrom(a, 0, ret.result.num_results)
            matching == {r.story : r \in FilteredRows(a, check_set_tags(a.include_tags),
                                                         check_set_tags(a.exclude_tags))}
        IN  /\ \A i, j \in DOMAIN all : all[i] = all[j] => i = j
            /\ {all[i] : i \in DOMAIN all} = matching
            /\ Len(all) = ret.result.num_results
            /\ \A i, j \in DOMAIN all :
                 (i < j /\ a.sort_by.t = "null") =>
                    IF a.descending.v = 1
                    THEN stories[all[i]].modified >= stories[all[j]].modified
                    ELSE stories[all[i]].modified <= stories[all[j]].modified

\* Two pages of one story each; a phrase joins the chapters, and a story of the
\* result has two chapters that match and two users who favorited it.
C6_Witness ==
    /\ Searched /\ ret.result.status = "ok"
    /\ ret.args.offset.v = 0 /\ ret.args.count.v = 1
    /\ ret.result.num_results = 2
    /\ ret.args.include_phrases # {}
    /\ ret.args.sort_by.t = "str"
    /\ \E s \in StoryIds :
          /\ ret.result.results = << s >>
          /\ Cardinality({c \in ChapterIds : chapters[c].story_id = s}) = 2
          /\ Cardinality(stories[s].favorited_by) = 2

-----------------------------------------------------------------------------
(* The validation specification: a store of two public stories of amy, the *)
(* first carrying the tag "abc"; searches whose scalar arguments are of    *)
(* the right or of a wrong JSON type, in and out of range, and whose       *)
(* collections hold valid and invalid user names, phrases and tag tokens.  *)

T_hash_abc    == << "#" >> \o S_abc                               \* "#abc"
T_hash_abd    == << "#" >> \o S_abd                               \* "#abd"
T_hash_ab     == << "#", "a", "b" >>                              \* "#ab"
T_generic_abc == Lower(TypeMembers[1]) \o << ":" >> \o S_abc      \* "generic:abc"
T_bogus_abc   == << "b", "o", "g", "u", "s", ":" >> \o S_abc      \* "bogus:abc"

ValidateStores ==
    << [StoryRow(1, CAN_COMMENT) EXCEPT !.tags = {1}, !.modified = 2],
       [StoryRow(1, CAN_COMMENT) EXCEPT !.modified = 1] >>

ValidateArgs ==
    [user : {None},
     offset : {JInt(-1), JInt(0), JStr("0"), JBool(TRUE)},
     count : {JInt(0), JInt(MaxCount), JNull},
     sort_by : {JNull, JStr("modified"), JStr("MODIFIED"), JInt(1)},
     descending : {JBool(TRUE), JInt(1)},
     filter_risque : {JNull, JBool(TRUE), JStr("true")},
     include_tags : {{}, {T_hash_abc}, {T_generic_abc}, {T_hash_abd}, {S_abc},
                     {T_bogus_abc}, {T_hash_ab}},
     exclude_tags : {{}, {T_hash_abd}},
     include_users : {{}, {S_amy}, {S_amy, << "a", "!" >>}},
     exclude_users : {{}, {Empty}},
     include_phrases : {{}, {S_abd}, {S_abd, << "a", "b" >>}},
     exclude_phrases : {{}, {<< "a" >>}}]

InitValidate ==
    /\ users = SearchUsers
    /\ tags = SearchTags
    /\ stories = ValidateStores
    /\ chapters = ChaptersFrom(<< 1, 1 >>, 1)
    /\ pc = "idle"
    /\ ret = NoCall
    /\ parser = NoParse

NextValidate == (pc = "idle" /\ \E a \in ValidateArgs : Search(a)) \/ Return

SpecValidate == InitValidate /\ [][NextValidate]_vars

-----------------------------------------------------------------------------
(* Claims about validation.                                                *)

\* C7: a search constructed with one or more violated input constraints (offset
\* not an integer >= 0, count not an integer >= 1, sort_by neither null nor one
\* of modified, posted, favorites, follows, descending not boolean,
\* filter_risque not boolean or null, an invalid username among the include or
\* the exclude users, a phrase shorter than 3 characters among the include or
\* the exclude phrases) raises one validation error whose messages are distinct,
\* as many as there are violated constraints, one about each violated field
\* and none about any other, and produces no result.
C7_Validation ==
    Searched =>
        LET a == ret.args
            errors == ret.result.errors
            violated ==
                [offset |-> ~(a.offset.t = "int" /\ a.offset.v >= 0),
                 count |-> ~(a.count.t = "int" /\ a.count.v >= 1),
                 sort_by |-> ~(\/ a.sort_by.t = "null"
                               \/ /\ a.sort_by.t = "str"
                                  /\ a.sort_by.v \in
                                       {"modified", "posted", "favorites", "follows"}),
                 descending |-> a.descending.t # "bool",
                 filter_risque |-> a.filter_risque.t \notin {"bool", "null"},
                 include_users |-> \E x \in a.include_users : ~is_valid_username(x),
                 exclude_users |-> \E x \in a.exclude_users : ~is_valid_username(x),
                 include_phrases |-> \E x \in a.include_phrases : Len(x) < 3,
                 exclude_phrases |-> \E x \in a.exclude_phrases : Len(x) < 3]
            about ==
                [offset |-> {"'offset' must be an integer.",
                             "'offset' must be greater than zero."},
                 count |-> {"'count' must be an integer.",
                            "'count' must be greater than 1."},
                 sort_by |-> {"'sort_by' must be a string.",
                              "'sort_by' must be one of: modified, posted, favorites, follows"},
                 descending |-> {"'descending' must be a boolean."},
                 filter_risque |-> {"'filter_risque' must be a boolean or null."},
                 include_users |-> {"Items in 'include_users' must be valid usernames."},
                 exclude_users |-> {"Items in 'exclude_users' must be valid usernames."},
                 include_phrases |->
                     {"Items in 'include_phrases' must be at least 3 characters long."},
                 exclude_phrases |->
                     {"Items in 'exclude_phrases' must be at least 3 characters long."}]
            fields == DOMAIN violated
        IN  (\E f \in fields : violated[f]) =>
                /\ ret.result.status = "ValueError"
                /\ Len(errors) = Cardinality({f \in fields : violated[f]})
                /\ Cardinality({errors[i] : i \in DOMAIN errors}) = Len(errors)
                /\ \A f \in fields :
                      violated[f] <=> \E i \in DOMAIN errors : errors[i] \in about[f]
                /\ ret.result.results = << >>

\* A negative offset together with an unknown sort order: two messages.
C7_Witness ==
    /\ Searched
    /\ ret.args.offset = JInt(-1)
    /\ ret.args.sort_by = JStr("MODIFIED")
    /\ ret.result.status = "ValueError"
    /\ Len(ret.result.errors) = 2

\* C8: a search whose include_tags or exclude_tags hold a tag token that does
\* not resolve through Tag.get (it raises for the token, or finds no tag) raises
\* a validation error and returns no result.
C8_TagTokens ==
    Searched =>
        ((\E x \in ret.args.include_tags \cup ret.args.exclude_tags :
              TagGet(x).raised \/ TagGet(x).tag = None)
         => ret.result.status = "ValueError")

-----------------------------------------------------------------------------
(* The filter specification: stories of amy and bob, public or private,    *)
(* risque or not, with or without the tag "abc", each with one public      *)
(* chapter; searches by nobody, by amy (who allows risque content) and by  *)
(* bob (who does not), with every value of filter_risque, with and without *)
(* tag, user and phrase criteria, sorted by modification or favorites.     *)

FilterPool ==
    [author_id : {1, 2}, flags : {4, 5, 12}, modified : {1}, posted : {0},
     title : {S_abd}, summary : {Empty}, tags : {{}, {1}},
     favorited_by : {{}}, followed_by : {{}}]

FilterArgs ==
    [user : {None, 1, 2},
     offset : {JInt(0)},
     count : {JInt(MaxStories)},
     sort_by : {JNull, JStr("favorites")},
     descending : {JBool(TRUE)},
     filter_risque : {JNull, JBool(TRUE), JBool(FALSE)},
     include_tags : {{}, {T_hash_abc}}, exclude_tags : {{}},
     include_users : {{}, {S_amy}}, exclude_users : {{}, {S_bob}},
     include_phrases : {{}, {S_abd}}, exclude_phrases : {{}}]

InitFilter ==
    /\ users = SearchUsers
    /\ tags = SearchTags
    /\ \E n \in 1..MaxStories :
          /\ stories \in [1..n -> FilterPool]
          /\ chapters = ChaptersFrom([i \in 1..n |-> 1], 1)
    /\ pc = "idle"
    /\ ret = NoCall
    /\ parser = NoParse

NextFilter == (pc = "idle" /\ \E a \in FilterArgs : Search(a)) \/ Return

SpecFilter == InitFilter /\ [][NextFilter]_vars

\* The stories a search returned.
Returned == {ret.result.results[i] : i \in DOMAIN ret.result.results}

-----------------------------------------------------------------------------
(* Claims about the filters.                                               *)

\* C9: every story a valid search returns is in visible_stories(viewer); with
\* filter_risque true every returned story is not risque, with false every
\* returned story is risque, with null the search returns what the searches
\* with true and with false return together (and, without other criteria, all
\* of visible_stories(viewer)); a risque story is never returned to a viewer
\* who is None or does not allow risque content.
C9_RisqueFilter ==
    (Searched /\ ret.result.status = "ok") =>
        LET a  == ret.args
            fr == a.filter_risque
            of(v) == LET r == SearchResults([a EXCEPT !.filter_risque = v]).results
                     IN  {r[i] : i \in DOMAIN r}
            plain == a.include_tags \cup a.exclude_tags \cup a.include_users
                     \cup a.exclude_users \cup a.include_phrases \cup a.exclude_phrases = {}
        IN  /\ Returned \subseteq visible_stories(a.user)
            /\ fr = JBool(TRUE) => \A s \in Returned : ~is_risque(s)
            /\ fr = JBool(FALSE) => \A s \in Returned : is_risque(s)
            /\ fr = JNull => Returned = of(JBool(TRUE)) \cup of(JBool(FALSE))
            /\ (fr = JNull /\ plain) => Returned = visible_stories(a.user)
            /\ (fr = JBool(TRUE) /\ plain) =>
                   Returned = {s \in visible_stories(a.user) : ~is_risque(s)}
            /\ (fr = JBool(FALSE) /\ plain) =>
                   Returned = {s \in visible_stories(a.user) : is_risque(s)}
            /\ (a.user = None \/ ~allow_risque(a.user)) =>
                   \A s \in Returned : ~is_risque(s)

\* bob, who does not allow risque content, searches with filter_risque null in
\* a store with a public risque story: he gets another story, not that one.
C9_Witness ==
    /\ Searched /\ ret.result.status = "ok"
    /\ ret.args.user = 2
    /\ ret.args.filter_risque = JNull
    /\ \E s \in StoryIds :
          /\ is_risque(s) /\ ~StoryPrivate(s) /\ ~StoryProtected(s)
          /\ s \notin Returned
    /\ Returned # {}

-----------------------------------------------------------------------------
(* The search page: search_page.  A request parameter is JNull when the    *)
(* request does not carry it and JStr(text) when it does.  The texts of    *)
(* the model hold no white space other than the space.                     *)

DefaultCount == 25

Digits == << "0", "1", "2", "3", "4", "5", "6", "7", "8", "9" >>

\* The value of a text of decimal digits.
RECURSIVE DigitsValue(_)
DigitsValue(str) ==
    IF str = << >> THEN 0
    ELSE 10 * DigitsValue(SubSeq(str, 1, Len(str) - 1)) + IndexOf(Digits, str[Len(str)]) - 1

\* int(text): [ok, n]; ok is FALSE where int raises ValueError.
ParseInt(str) ==
    LET neg  == StartsWith(str, "-")
        body == IF neg THEN Tail(str) ELSE str
    IN  IF body = << >> \/ \E i \in DOMAIN body : ~Contains(Digits, body[i])
        THEN [ok |-> FALSE, n |-> 0]
        ELSE [ok |-> TRUE, n |-> IF neg THEN 0 - DigitsValue(body) ELSE DigitsValue(body)]

\* str.strip()
Whitespace == {" ", "\t", "\n"}

RECURSIVE Strip(_)
Strip(str) ==
    IF str = << >> THEN str
    ELSE IF Head(str) \in Whitespace THEN Strip(Tail(str))
    ELSE IF str[Len(str)] \in Whitespace THEN Strip(SubSeq(str, 1, Len(str) - 1))
    ELSE str

\* str.split(sep)
RECURSIVE SplitOn(_, _)
SplitOn(str, sep) ==
    IF ~Contains(str, sep) THEN << str >>
    ELSE << SubSeq(str, 1, IndexOf(str, sep) - 1) >>
         \o SplitOn(SubSeq(str, IndexOf(str, sep) + 1, Len(str)), sep)

\* sep.join(words)
RECURSIVE Join(_, _)
Join(words, sep) ==
    IF words = << >> THEN << >>
    ELSE IF Len(words) = 1 THEN words[1]
    ELSE words[1] \o << sep >> \o Join(Tail(words), sep)

NonEmpty(w) == Len(w) > 0

\* One space is taken out of every run of two or more spaces.
RECURSIVE DropOneSpace(_, _)
DropOneSpace(str, in_run) ==
    IF str = << >> THEN str
    ELSE IF Head(str) # " " THEN << Head(str) >> \o DropOneSpace(Tail(str), FALSE)
    ELSE IF ~in_run /\ Len(str) > 1 /\ str[2] = " " THEN DropOneSpace(Tail(str), TRUE)
    ELSE << " " >> \o DropOneSpace(Tail(str), TRUE)

reduce_whitespace_once(string) == DropOneSpace(Strip(string), FALSE)

reduce_whitespace(string) == Join(SelectSeq(SplitOn(Strip(string), " "), NonEmpty), " ")

\* Lines 601-607.
PageOffset(p) ==
    IF p.t = "null" THEN 0
    ELSE IF ~ParseInt(p.v).ok THEN 0
    ELSE IF ParseInt(p.v).n < 0 THEN 0
    ELSE ParseInt(p.v).n

\* Lines 609-615: the count is read from the parameter "offset".
PageCount(p) ==
    IF p.t = "null" THEN DefaultCount
    ELSE IF ~ParseInt(p.v).ok THEN 0
    ELSE IF ParseInt(p.v).n < 0 THEN DefaultCount
    ELSE ParseInt(p.v).n

Truthy == {<< "t", "r", "u", "e" >>, << "t" >>, << "y" >>, << "y", "e", "s" >>, << "1" >>}

\* Lines 617-619.
PageDescending(p) == Lower(IF p.t = "null" THEN << "t", "r", "u", "e" >> ELSE p.v) \in Truthy

\* Lines 621-623.
PageSortBy(p) ==
    IF p.t = "null" THEN "modified"
    ELSE IF p.v \notin good_values THEN "modified"
    ELSE p.v

\* Lines 625-643: a JSON value, null for None.
PageFilterRisque(p, user) ==
    LET given   == IF p.t = "null" \/ ~ParseInt(p.v).ok THEN 0 ELSE ParseInt(p.v).n
        sign    == IF given < 0 THEN 0 - 1 ELSE IF given > 0 THEN 1 ELSE given
        enforced == IF sign < 1 /\ (user = None \/ ~allow_risque(user)) THEN 1 ELSE sign
    IN  IF enforced > 0 THEN JBool(TRUE)
        ELSE IF enforced < 0 THEN JBool(FALSE)
        ELSE JNull

\* Lines 669-680: the inner loop of a text group, from after the opening quote:
\* [text, query].
RECURSIVE QuoteScan(_, _, _)
QuoteScan(query, escape, text) ==
    IF query = << >> THEN [text |-> text, query |-> query]
    ELSE IF Head(query) = "\"" /\ ~escape THEN [text |-> text, query |-> Tail(query)]
    ELSE IF Head(query) = "\\" /\ ~escape THEN QuoteScan(Tail(query), TRUE, text)
    ELSE QuoteScan(Tail(query), FALSE, text \o << Head(query) >>)

\* A scan of a generic token that consumes nothing.
WordScanNothing(query, text) == [text |-> text, query |-> query]

\* Lines 691-701: the inner loop of a generic token: [text, query].
RECURSIVE WordScan(_, _)
WordScan(query, text) ==
    IF query = << >> THEN [text |-> text, query |-> query]
    ELSE IF Head(query) = " " THEN [text |-> text, query |-> Tail(query)]
    ELSE IF Head(query) = "\"" THEN [text |-> text, query |-> query]
    ELSE WordScan(Tail(query), text \o << Head(query) >>)

\* The item goes to the "plain" set whatever negate is.
AddToIncluded(args, negate, included, excluded, item) ==
    [args EXCEPT ![included] = @ \cup {item}]

\* The set "negated" or "plain" of the pair gets the item.
AddTo(args, negate, included, excluded, item) ==
    IF negate THEN [args EXCEPT ![excluded] = @ \cup {item}]
    ELSE [args EXCEPT ![included] = @ \cup {item}]

T_user == << "u", "s", "e", "r" >>

\* Lines 703-731: what a generic token adds to the criteria.
GenericToken(args, negate, text) ==
    LET colon == Contains(text, ":")
        hash  == StartsWith(text, "#")
        parts == IF colon THEN << BeforeColon(text), AfterColon(text) >> ELSE << text >>
        stripped  == IF hash THEN Tail(text) ELSE text
        parts0    == IF hash THEN Tail(parts[1]) ELSE parts[1]
        last      == IF colon THEN parts[2] ELSE parts0
    IN  IF colon /\ parts[1] = T_user
        THEN IF is_valid_username(parts[2])
             THEN AddTo(args, negate, "include_users", "exclude_users", parts[2])
             ELSE args
        ELSE IF (colon /\ \A i \in DOMAIN parts : Len(parts[i]) > 0) \/ hash
        THEN IF /\ is_valid_name(last)
                /\ (Len(parts) = 1 \/ (Len(parts) = 2 /\ is_valid_type(parts0)))
             THEN AddTo(args, negate, "include_tags", "exclude_tags", stripped)
             ELSE args
        ELSE IF Len(text) >= 3 /\ ~colon
        THEN AddTo(args, negate, "include_phrases", "exclude_phrases", text)
        ELSE args

\* What the page shows when the request carries no query (lines 780-786).
NoSearch ==
    [status |-> "blank", errors |-> << >>, results |-> << >>,
     num_results |-> None, start |-> None, end |-> None]

\* Lines 599-654: the request parameters are read; with a query the parser
\* starts, without one the page is rendered without results.
SearchPageBegin(req) ==
    /\ pc = "idle"
    /\ LET args == [q |-> req.q, user |-> req.user,
                    offset |-> JInt(PageOffset(req.offset)),
                    count |-> JInt(PageCount(req.offset)),
                    sort_by |-> JStr(PageSortBy(req.sort_by)),
                    descending |-> JBool(PageDescending(req.descending)),
                    filter_risque |-> PageFilterRisque(req.filter_risque, req.user),
                    include_tags |-> {}, exclude_tags |-> {},
                    include_users |-> {}, exclude_users |-> {},
                    include_phrases |-> {}, exclude_phrases |-> {}]
       IN  IF req.q.t # "null" /\ Len(Strip(req.q.v)) > 0
           THEN /\ parser' = [query |-> reduce_whitespace(req.q.v), negate |-> FALSE,
                              args |-> args]
                /\ pc' = "parsing"
                /\ UNCHANGED ret
           ELSE /\ ret' = [op |-> "search_page", args |-> args, result |-> NoSearch]
                /\ pc' = "done"
                /\ UNCHANGED parser
    /\ UNCHANGED <<users, stories, chapters, tags>>

\* Lines 655-733: the locals after one turn of the loop
\* "while len(query) > 0", p being the locals before it.
ParserTurn(p) ==
    LET query == p.query
    IN  IF Head(query) = " "
        THEN [p EXCEPT !.query = Tail(query)]
        ELSE IF Head(query) = "!"
        THEN [p EXCEPT !.query = Tail(query), !.negate = ~p.negate]
        ELSE IF Head(query) = "\""
        THEN LET scan == QuoteScan(Tail(query), FALSE, << >>)
                 rest == IF Len(scan.query) > 0 /\ scan.query[1] = " "
                         THEN Tail(scan.query) ELSE scan.query
             IN  [query |-> rest, negate |-> FALSE,
                  args |-> IF Len(scan.text) >= 3
                           THEN AddTo(p.args, p.negate,
                                      "include_phrases", "exclude_phrases", scan.text)
                           ELSE p.args]
        ELSE LET scan == WordScan(query, << >>)
             IN  [query |-> scan.query, negate |-> FALSE,
                  args |-> GenericToken(p.args, p.negate, scan.text)]

ParseStep ==
    /\ pc = "parsing"
    /\ Len(parser.query) > 0
    /\ parser' = ParserTurn(parser)
    /\ UNCHANGED <<users, stories, chapters, tags, pc, ret>>

\* Lines 735-779: the loop has ended; SearchResults is constructed from the
\* criteria and the page is rendered.  An exception of SearchResults is not
\* caught.
SearchPageCall ==
    /\ pc = "parsing"
    /\ Len(parser.query) = 0
    /\ ret' = [op |-> "search_page", args |-> parser.args,
               result |-> SearchResults(parser.args)]
    /\ parser' = NoParse
    /\ pc' = "done"
    /\ UNCHANGED <<users, stories, chapters, tags>>

-----------------------------------------------------------------------------
(* The search page specification: three public stories, the first of amy   *)
(* with the tag "abc", the second of bob without it, the third of bob with *)
(* it; requests by nobody and by amy whose query is made of up to          *)
(* MaxTokens tokens, plain or negated: a tag as "#abc" and as              *)
(* "generic:abc", a tag that does not exist, a user, a quoted phrase.      *)

MaxTokens == 3

T_user_bob == T_user \o << ":" >> \o S_bob                         \* user:bob
T_phrase   == << "\"" >> \o S_abd \o << " " >> \o S_abd \o << "\"" >>   \* "abd abd"

ParseStores ==
    << [StoryRow(1, CAN_COMMENT) EXCEPT !.tags = {1}, !.modified = 3, !.title = S_abd],
       [StoryRow(2, CAN_COMMENT) EXCEPT !.modified = 2, !.title = S_abd],
       [StoryRow(2, CAN_COMMENT) EXCEPT !.tags = {1}, !.modified = 1, !.title = S_abd] >>

ParseTokens ==
    LET plain == {T_hash_abc, T_hash_abd, T_generic_abc, T_user_bob, T_phrase}
    IN  plain \cup {<< "!" >> \o tok : tok \in plain}

\* The queries of n tokens, a space between two tokens.
RECURSIVE QueriesOf(_)
QueriesOf(n) ==
    IF n = 1 THEN ParseTokens
    ELSE {q \o << " " >> \o tok : q \in QueriesOf(n - 1), tok \in ParseTokens}

ParseRequests ==
    [user : {None, 1},
     q : {JNull, JStr(<< " " >>)}
         \cup {JStr(q) : q \in UNION {QueriesOf(n) : n \in 1..MaxTokens}},
     offset : {JNull},
     sort_by : {JNull},
     descending : {JNull},
     filter_risque : {JNull}]

InitParse ==
    /\ users = SearchUsers
    /\ tags = SearchTags
    /\ stories = ParseStores
    /\ chapters = ChaptersFrom(<< 1, 1, 1 >>, 1)
    /\ pc = "idle"
    /\ ret = NoCall
    /\ parser = NoParse

NextParse ==
    \/ (pc = "idle" /\ \E req \in ParseRequests : SearchPageBegin(req))
    \/ ParseStep
    \/ SearchPageCall
    \/ Return

SpecParse == InitParse /\ [][NextParse]_vars

\* search_page has rendered the results of a query.
PageSearched == pc = "done" /\ ret.op = "search_page" /\ ret.result.status # "blank"

\* The tokens of the query that are not quoted: in the queries of the model
\* the words between spaces that do not hold a quote.
WordsOf(q) ==
    LET words == SplitOn(reduce_whitespace(q), " ")
    IN  {words[i] : i \in {j \in DOMAIN words : ~Contains(words[j], "\"")}}

-----------------------------------------------------------------------------
(* Claims about the search page.                                           *)

\* C10: when the query of the search page holds a token "#name" whose name
\* passes tag-name validation and the GENERIC tag of that name exists, the
\* search succeeds and returns only stories that carry the tag; when it holds
\* the negated token "!#name", the search returns no story that carries it.
C10_HashToken ==
    PageSearched =>
        \A w \in WordsOf(ret.args.q.v) :
            LET negated == StartsWith(w, "!")
                token   == IF negated THEN Tail(w) ELSE w
                name    == Tail(token)
                tag     == TagFirst(GENERIC, name)
            IN  (StartsWith(token, "#") /\ is_valid_name(name) /\ tag # None) =>
                    /\ ret.result.status = "ok"
                    /\ ~negated => \A s \in Returned : tag \in stories[s].tags
                    /\ negated => \A s \in Returned : tag \notin stories[s].tags

-----------------------------------------------------------------------------
(* The parser specification: the store of the search page specification;   *)
(* requests by nobody whose query is any text of up to MaxPieces pieces,   *)
(* a piece being one of the characters the parser treats specially, the    *)
(* word "abc" or the prefix "user:".  One request is followed from its     *)
(* arrival to its page.                                                    *)

MaxPieces == 4
MaxFairPieces == 2

Pieces ==
    {<< "!" >>, << " " >>, << "\"" >>, << "\\" >>, << "#" >>, << ":" >>, S_abc,
     T_user \o << ":" >>}

\* The texts of n pieces.
RECURSIVE TextsOf(_)
TextsOf(n) ==
    IF n = 0 THEN {Empty}
    ELSE {q \o piece : q \in TextsOf(n - 1), piece \in Pieces}

\* The requests by nobody whose query has up to n pieces.
LexRequests(n) ==
    [user : {None},
     q : {JStr(q) : q \in UNION {TextsOf(k) : k \in 0..n}},
     offset : {JNull},
     sort_by : {JNull},
     descending : {JNull},
     filter_risque : {JNull}]

NextLex ==
    \/ (pc = "idle" /\ \E req \in LexRequests(MaxPieces) : SearchPageBegin(req))
    \/ ParseStep
    \/ SearchPageCall

SpecLex == InitParse /\ [][NextLex]_vars

NextLexFair ==
    \/ (pc = "idle" /\ \E req \in LexRequests(MaxFairPieces) : SearchPageBegin(req))
    \/ ParseStep
    \/ SearchPageCall

\* The request handler runs: a loop that can take a turn takes it.
SpecLexFair == InitParse /\ [][NextLexFair]_vars /\ WF_vars(ParseStep)

\* The criteria of the six sets.
Criteria ==
    {"include_tags", "exclude_tags", "include_users", "exclude_users",
     "include_phrases", "exclude_phrases"}

-----------------------------------------------------------------------------
(* Claims about the parser.                                                *)

\* C11: negate is false when the parser starts; a turn of the loop that
\* consumes "!" toggles it and emits nothing, a turn that skips a space leaves
\* it as it is and emits nothing, and every other turn (a quoted phrase or a
\* generic token, kept or discarded) resets it to false; what such a turn
\* emits goes to an exclude set if negate was true and to an include set if it
\* was false; nothing is ever taken out of a set.
C11_Negate ==
    [][ /\ (pc = "idle" /\ pc' = "parsing") => parser'.negate = FALSE
        /\ (pc = "parsing" /\ pc' = "parsing") =>
              LET c == Head(parser.query)
                  added(f) == parser'.args[f] \ parser.args[f]
                  inc == added("include_tags") \cup added("include_users")
                         \cup added("include_phrases")
                  exc == added("exclude_tags") \cup added("exclude_users")
                         \cup added("exclude_phrases")
              IN  /\ \A f \in Criteria : parser.args[f] \subseteq parser'.args[f]
                  /\ IF c = "!"
                     THEN parser'.negate = ~parser.negate /\ inc = {} /\ exc = {}
                     ELSE IF c = " "
                     THEN parser'.negate = parser.negate /\ inc = {} /\ exc = {}
                     ELSE /\ parser'.negate = FALSE
                          /\ inc # {} => ~parser.negate
                          /\ exc # {} => parser.negate
      ]_vars

\* The query "! abc": the "!" sets negate, the space is skipped with negate
\* still set, the token is emitted into the exclude phrases.
C11_Witness ==
    /\ PageSearched
    /\ ret.args.q.v = << "!", " " >> \o S_abc
    /\ ret.args.exclude_phrases = {S_abc}
    /\ ret.args.include_phrases = {}

\* C12: every turn of the parser's loop strictly shortens the remaining query
\* and the loop ends, whatever the query: the parser reaches the end of the
\* query; every phrase the parser emitted has at least 3 characters and every
\* username it emitted is a valid username, so that the search it then
\* constructs raises no validation error.
C12_Terminates ==
    /\ [][(pc = "parsing" /\ pc' = "parsing") =>
             Len(parser'.query) < Len(parser.query)]_vars
    /\ (pc = "parsing") ~> (pc # "parsing" \/ parser.query = << >>)
    /\ [](pc = "parsing" =>
             /\ \A x \in parser.args.include_phrases \cup parser.args.exclude_phrases :
                   Len(x) >= 3
             /\ \A x \in parser.args.include_users \cup parser.args.exclude_users :
                   is_valid_username(x))
    /\ [](PageSearched => ret.result.status = "ok")

\* The query ":abc": a token of no recognised shape is dropped and the search
\* runs without criteria.
C12_Witness ==
    /\ PageSearched
    /\ ret.args.q.v = << ":" >> \o S_abc
    /\ \A f \in Criteria : ret.args[f] = {}
    /\ ret.result.status = "ok"

-----------------------------------------------------------------------------
(* The criteria specification: public stories of amy and bob, with or      *)
(* without the tag "abc", favorited by nobody or by cyd; searches by       *)
(* nobody with tag tokens that resolve ("#abc", "generic:abc") and one     *)
(* that names no tag ("#abd"), with user criteria, sorted by modification  *)
(* or by favorites.                                                        *)

CriteriaPool ==
    [author_id : {1, 2}, flags : {CAN_COMMENT}, modified : {1}, posted : {0},
     title : {S_abd}, summary : {Empty}, tags : {{}, {1}},
     favorited_by : {{}, {3}}, followed_by : {{}}]

CriteriaArgs ==
    [user : {None},
     offset : {JInt(0)},
     count : {JInt(MaxStories)},
     sort_by : {JNull, JStr("favorites")},
     descending : {JBool(TRUE)},
     filter_risque : {JBool(TRUE)},
     include_tags : {{}, {T_hash_abc}, {T_hash_abd}, {T_generic_abc, T_hash_abd}},
     exclude_tags : {{}, {T_hash_abc}, {T_hash_abd}},
     include_users : {{}, {S_amy}, {S_amy, S_cyd}},
     exclude_users : {{}, {S_bob}},
     include_phrases : {{}}, exclude_phrases : {{}}]

InitCriteria ==
    /\ users = SearchUsers
    /\ tags = SearchTags
    /\ \E n \in 1..MaxStories :
          /\ stories \in [1..n -> CriteriaPool]
          /\ chapters = ChaptersFrom([i \in 1..n |-> 1], 1)
    /\ pc = "idle"
    /\ ret = NoCall
    /\ parser = NoParse

NextCriteria == (pc = "idle" /\ \E a \in CriteriaArgs : Search(a)) \/ Return

SpecCriteria == InitCriteria /\ [][NextCriteria]_vars

\* The tags the tokens of a collection name.
NamedTags(tokens) ==
    {tg \in TagIds : \E x \in tokens : ~TagGet(x).raised /\ TagGet(x).tag = tg}

-----------------------------------------------------------------------------
(* Claims about the tag and user criteria.                                 *)

\* C13: a search that passes validation returns, of the stories visible to the
\* viewer and let through by the risque filter, exactly those that carry a tag
\* named in include_tags when include_tags is not empty, carry no tag named in
\* exclude_tags, are written by a user named in include_users when
\* include_users is not empty, and are not written by a user named in
\* exclude_users.
C13_TagUserCriteria ==
    (Searched /\ ValidationErrors(ret.args) = << >>
              /\ ret.args.include_phrases \cup ret.args.exclude_phrases = {}) =>
        LET a == ret.args
            base == {s \in visible_stories(a.user) :
                       \/ a.filter_risque = JNull
                       \/ a.filter_risque = JBool(~is_risque(s))}
            author(s) == users[stories[s].author_id].username
        IN  /\ ret.result.status = "ok"
            /\ Returned =
                 {s \in base :
                    /\ a.include_tags # {} =>
                          stories[s].tags \cap NamedTags(a.include_tags) # {}
                    /\ stories[s].tags \cap NamedTags(a.exclude_tags) = {}
                    /\ a.include_users # {} => author(s) \in a.include_users
                    /\ author(s) \notin a.exclude_users}

-----------------------------------------------------------------------------
(* The phrase specification: two public stories of amy titled "abd" with   *)
(* up to MaxChapters chapters between them, a chapter being public or      *)
(* private, with author notes "abc" or without author notes, with the text *)
(* "abc" or "abd"; searches by nobody with and without an include phrase   *)
(* and an exclude phrase, in lower and in upper case.                      *)

MaxChapters == 2

S_ABD == Upper(S_abd)

PhraseStores ==
    << [StoryRow(1, CAN_COMMENT) EXCEPT !.modified = 2, !.title = S_abd],
       [StoryRow(1, CAN_COMMENT) EXCEPT !.modified = 1, !.title = S_abd] >>

\* A chapter before its index is known.
PhraseChapterPool ==
    [story_id : {1, 2}, flags : {0, ChapterPRIVATE}, notes_null : BOOLEAN,
     text : {S_abc, S_abd}]

\* Chapter.new gives the chapter the number of chapters the story has as its
\* index; author notes that are not NULL are "abc".
Indexed(profiles) ==
    [i \in DOMAIN profiles |->
        ChapterRow(profiles[i].story_id, profiles[i].flags,
                   Cardinality({j \in 1..(i - 1) :
                                   profiles[j].story_id = profiles[i].story_id}),
                   profiles[i].notes_null,
                   IF profiles[i].notes_null THEN Empty ELSE S_abc,
                   profiles[i].text)]

PhraseArgs ==
    [user : {None},
     offset : {JInt(0)},
     count : {JInt(MaxStories)},
     sort_by : {JNull},
     descending : {JBool(TRUE)},
     filter_risque : {JBool(TRUE)},
     include_tags : {{}}, exclude_tags : {{}},
     include_users : {{}}, exclude_users : {{}},
     include_phrases : {{}, {S_abc}, {S_ABD}},
     exclude_phrases : {{}, {S_abd}}]

InitPhrase ==
    /\ users = SearchUsers
    /\ tags = SearchTags
    /\ stories = PhraseStores
    /\ \E m \in 1..MaxChapters : \E profiles \in [1..m -> PhraseChapterPool] :
          chapters = Indexed(profiles)
    /\ pc = "idle"
    /\ ret = NoCall
    /\ parser = NoParse

NextPhrase == (pc = "idle" /\ \E a \in PhraseArgs : Search(a)) \/ Return

SpecPhrase == InitPhrase /\ [][NextPhrase]_vars

\* phrase occurs in text, case ignored.
OccursIn(phrase, text) ==
    \E i \in 1..(Len(text) - Len(phrase) + 1) :
        Lower(SubSeq(text, i, i + Len(phrase) - 1)) = Lower(phrase)

-----------------------------------------------------------------------------
(* Claims about the phrase criteria.                                       *)

\* C14: a search with phrase criteria considers the chapters with neither
\* PRIVATE nor PROTECTED set; a phrase matches a (story, chapter) row iff it
\* occurs, case ignored, in the story's title or summary or in the chapter's
\* author notes (absent notes hold nothing) or text; a story with such a row
\* is returned iff, when there are include phrases, one of them matches one of
\* its rows and no exclude phrase matches any of its rows.
C14_Phrases ==
    (Searched /\ ret.result.status = "ok"
              /\ ret.args.include_phrases \cup ret.args.exclude_phrases # {}) =>
        LET a == ret.args
            rows(s) == {c \in ChapterIds :
                          chapters[c].story_id = s /\ chapters[c].flags % 4 = 0}
            matches(p, s, c) ==
                \/ OccursIn(p, stories[s].title)
                \/ OccursIn(p, stories[s].summary)
                \/ ~chapters[c].notes_null /\ OccursIn(p, chapters[c].author_notes)
                \/ OccursIn(p, chapters[c].text)
        IN  Returned =
              {s \in visible_stories(a.user) :
                 /\ rows(s) # {}
                 /\ a.include_phrases # {} =>
                       \E c \in rows(s) : \E p \in a.include_phrases : matches(p, s, c)
                 /\ \A c \in rows(s) : \A p \in a.exclude_phrases : ~matches(p, s, c)}

-----------------------------------------------------------------------------
(* Claims about the order of the results.                                  *)

\* The sort key of a story: its modified or posted timestamp, or the number of
\* users who favorited or follow it.
SortKey(s, sort_by) ==
    IF sort_by = "modified" THEN stories[s].modified
    ELSE IF sort_by = "posted" THEN stories[s].posted
    ELSE IF sort_by = "favorites" THEN Cardinality(stories[s].favorited_by)
    ELSE Cardinality(stories[s].followed_by)

\* C15: the results of a search are ordered by the sort key, descending when
\* descending is true and ascending otherwise, the key being the story's
\* modified or posted timestamp or, for favorites and follows, the number of
\* users who favorited or follow the story, whatever other criteria are
\* applied; stories of equal key are ordered by story id.
C15_SortOrder ==
    (Searched /\ ret.result.status = "ok") =>
        LET a == ret.args
            sort_by == IF a.sort_by.t = "null" THEN "modified" ELSE a.sort_by.v
            res == ret.result.results
            key(i) == SortKey(res[i], sort_by)
        IN  \A i, j \in DOMAIN res :
              i < j =>
                 \/ (a.descending.v = 1 /\ key(i) > key(j))
                 \/ (a.descending.v = 0 /\ key(i) < key(j))
                 \/ (key(i) = key(j) /\ res[i] < res[j])

-----------------------------------------------------------------------------
(* Tag.new, and the tag specification: a registry that starts empty and    *)
(* grows by Tag.new (committed at once) up to MaxTags tags; type names in  *)
(* lower, mixed and upper case and one that names no type; names that are  *)
(* valid, too short, too long, or hold a blacklisted character.            *)

MaxTags == 3

T_genre   == Lower(TypeMembers[2])                                 \* "genre"
T_Genre   == << "G" >> \o Tail(T_genre)                            \* "Genre"
T_GENRE   == TypeMembers[2]                                        \* "GENRE"
T_generic == Lower(TypeMembers[1])                                 \* "generic"
T_bogus   == << "b", "o", "g", "u", "s" >>                         \* "bogus"

TooLong == [i \in 1..(NAME_LENGTH + 1) |-> "a"]

TagTypeTexts == {T_genre, T_Genre, T_GENRE, T_generic, T_bogus}
TagNameTexts == {S_abc, S_abd, << "a", "b" >>, << "a", "!", "c" >>, TooLong}

\* Tag.new without the look-up of an existing tag.
TagNewUnchecked(ttype, name) ==
    LET errors == (IF ~is_valid_type(ttype) THEN << "Invalid tag type." >> ELSE << >>)
                  \o (IF ~is_valid_name(name) THEN << "Invalid tag name." >> ELSE << >>)
    IN  IF Len(errors) > 0
        THEN [status |-> "ValueError", errors |-> errors, row |-> << >>]
        ELSE [status |-> "ok", errors |-> << >>,
              row |-> << [type |-> TypeValue(Upper(ttype)), name |-> name] >>]

\* Tag.new(ttype, name) for two strings: the exception it raises, or the row it
\* adds.
TagNewResult(ttype, name) ==
    LET errors == (IF ~is_valid_type(ttype) THEN << "Invalid tag type." >> ELSE << >>)
                  \o (IF ~is_valid_name(name) THEN << "Invalid tag name." >> ELSE << >>)
    IN  IF Len(errors) > 0
        THEN [status |-> "ValueError", errors |-> errors, row |-> << >>]
        ELSE IF TagFirst(TypeValue(Upper(ttype)), name) # None
        THEN [status |-> "ValueError", errors |-> << "Tag already exists." >>,
              row |-> << >>]
        ELSE [status |-> "ok", errors |-> << >>,
              row |-> << [type |-> TypeValue(Upper(ttype)), name |-> name] >>]

\* Tag.new(ttype, name, commit=True)
TagNew(ttype, name) ==
    /\ pc = "idle"
    /\ Len(tags) < MaxTags
    /\ tags' = tags \o TagNewResult(ttype, name).row
    /\ ret' = [op |-> "Tag.new", args |-> << ttype, name >>,
               result |-> TagNewResult(ttype, name)]
    /\ pc' = "done"
    /\ UNCHANGED <<users, stories, chapters, parser>>

\* Tag.is_valid_type(type)
CallIsValidType(type) ==
    /\ pc = "idle"
    /\ ret' = [op |-> "Tag.is_valid_type", args |-> << type >>,
               result |-> is_valid_type(type)]
    /\ pc' = "done"
    /\ UNCHANGED <<users, stories, chapters, tags, parser>>

\* Tag.get(query_name)
CallTagGet(query_name) ==
    /\ pc = "idle"
    /\ ret' = [op |-> "Tag.get", args |-> << query_name >>, result |-> TagGet(query_name)]
    /\ pc' = "done"
    /\ UNCHANGED <<users, stories, chapters, tags, parser>>

InitTag ==
    /\ users = SearchUsers
    /\ tags = << >>
    /\ stories = << >>
    /\ chapters = << >>
    /\ pc = "idle"
    /\ ret = NoCall
    /\ parser = NoParse

NextTag ==
    \/ \E ttype \in TagTypeTexts, name \in TagNameTexts : TagNew(ttype, name)
    \/ \E type \in TagTypeTexts : CallIsValidType(type)
    \/ \E type \in TagTypeTexts : CallTagGet(type \o << ":" >> \o S_abc)
    \/ Return

SpecTag == InitTag /\ [][NextTag]_vars

\* The five type names.
TypeNames ==
    {<< "g", "e", "n", "e", "r", "i", "c" >>, << "g", "e", "n", "r", "e" >>,
     << "c", "a", "t", "e", "g", "o", "r", "y" >>,
     << "c", "h", "a", "r", "a", "c", "t", "e", "r" >>,
     << "s", "e", "r", "i", "e", "s" >>}

-----------------------------------------------------------------------------
(* Claims about the tag registry.                                          *)

\* C16: Tag.is_valid_type accepts a type name in every casing of the five
\* names; Tag.new with such a type and a new, valid name adds the tag under
\* the type of the lower-case name; Tag.get resolves a query name with such a
\* type as it resolves the one with the lower-case type.
C16_TypeCase ==
    /\ (pc = "done" /\ ret.op = "Tag.is_valid_type") =>
          ret.result = (Lower(ret.args[1]) \in TypeNames)
    /\ (pc = "done" /\ ret.op = "Tag.new" /\ Lower(ret.args[1]) \in TypeNames
           /\ ret.result.status = "ValueError") =>
          ret.result.errors # << "Invalid tag type." >>
    /\ (pc = "done" /\ ret.op = "Tag.get" /\ Lower(BeforeColon(ret.args[1])) \in TypeNames) =>
          ret.result = TagGet(Lower(BeforeColon(ret.args[1])) \o << ":" >>
                              \o AfterColon(ret.args[1]))

\* C17: Tag.new(type, name) raises a ValueError and adds no tag when type is
\* not one of the five type names, when name is shorter than 3 or longer than
\* 96 characters or holds a blacklisted character, or when a tag of that type
\* and name exists; otherwise it adds exactly that one tag; no two tags ever
\* share type and name.
C17_TagNew ==
    /\ [][(pc = "idle" /\ pc' = "done" /\ ret'.op = "Tag.new") =>
            LET ttype == ret'.args[1]
                name  == ret'.args[2]
                badtype == ttype \notin TypeNames
                badname == \/ Len(name) < 3 \/ Len(name) > 96
                           \/ \E i \in DOMAIN name : Ord(name[i]) \in InvalidNameChars
                exists == ~badtype /\ \E i \in DOMAIN tags :
                             /\ TypeMembers[tags[i].type + 1] = Upper(ttype)
                             /\ tags[i].name = name
            IN  IF badtype \/ badname \/ exists
                THEN ret'.result.status = "ValueError" /\ tags' = tags
                ELSE /\ ret'.result.status = "ok"
                     /\ tags' = Append(tags, [type |-> TypeValue(Upper(ttype)),
                                              name |-> name])
         ]_vars
    /\ [](\A i, j \in DOMAIN tags : tags[i] = tags[j] => i = j)

\* The name "abc" is registered under two types, and a third Tag.new of one of
\* the pairs has just been refused.
C17_Witness ==
    /\ pc = "done" /\ ret.op = "Tag.new"
    /\ ret.result.errors = << "Tag already exists." >>
    /\ Len(tags) = 2
    /\ tags[1].name = S_abc /\ tags[2].name = S_abc
    /\ tags[1].type # tags[2].type

-----------------------------------------------------------------------------
(* Story.update.  The rows hold what the session holds after the call; the *)
(* result tells whether the call committed.  The thumbnail argument stays  *)
(* None.                                                                   *)

MaxClock == 2

\* A flag property's setter: "|=" for True, "^=" for False.
SetFlag(flags, bit, value) ==
    IF value THEN BitOr(flags, bit)
    ELSE IF BitAnd(flags, bit) # 0 THEN flags - bit ELSE flags + bit

ChaptersOf(s) == {c \in ChapterIds : chapters[c].story_id = s}

\* A story goes public whatever its chapters are.
CanPublishAlways(s) == TRUE

\* Lines 1191-1195: the story has a chapter that is visible by itself.
CanPublish(s) ==
    /\ Cardinality(ChaptersOf(s)) > 0
    /\ \E c \in ChaptersOf(s) : self_visible(c)

\* One flag argument of update: [flags, errors, modified] after it.
UpdateFlag(flags, arg, bit, name, allowed) ==
    IF arg.t = "null" THEN [flags |-> flags, errors |-> << >>, modified |-> FALSE]
    ELSE IF arg.t # "bool"
    THEN [flags |-> flags, errors |-> << name >>, modified |-> FALSE]
    ELSE IF (arg.v = 1) # (BitAnd(flags, bit) # 0) /\ (arg.v = 1 \/ allowed)
    THEN [flags |-> SetFlag(flags, bit, arg.v = 1), errors |-> << >>, modified |-> TRUE]
    ELSE [flags |-> flags, errors |-> << >>, modified |-> FALSE]

\* A text argument of Story.update (title or summary): [text, errors, changed].
UpdateText(old, arg, name, required) ==
    IF arg.t = "null" THEN [text |-> old, errors |-> << >>, changed |-> FALSE]
    ELSE IF arg.t # "str" THEN [text |-> old, errors |-> << name >>, changed |-> FALSE]
    ELSE IF required /\ Len(Strip(arg.v)) = 0
    THEN [text |-> old, errors |-> << name >>, changed |-> FALSE]
    ELSE [text |-> reduce_whitespace(arg.v), errors |-> << >>,
          changed |-> reduce_whitespace(arg.v) # old]

\* Story.update(title, None, summary, private, protected, can_comment,
\* is_risque) on story s: [row, errors, committed].
StoryUpdateResult(s, a) ==
    LET row   == stories[s]
        title == UpdateText(row.title, a.title, "title", TRUE)
        summ  == UpdateText(row.summary, a.summary, "summary", FALSE)
        f1    == UpdateFlag(row.flags, a.can_comment, CAN_COMMENT, "can_comment", TRUE)
        f2    == UpdateFlag(f1.flags, a.private, StoryPRIVATE, "private", CanPublish(s))
        f3    == UpdateFlag(f2.flags, a.protected, StoryPROTECTED, "protected", TRUE)
        f4    == UpdateFlag(f3.flags, a.is_risque, IS_RISQUE, "is_risque", TRUE)
        errors == title.errors \o summ.errors \o f1.errors \o f2.errors \o f3.errors
                  \o f4.errors
        modified == f1.modified \/ f2.modified \/ f3.modified \/ f4.modified
        update_timestamp == title.changed \/ summ.changed
    IN  [row |-> [row EXCEPT !.title = title.text, !.summary = summ.text,
                             !.flags = f4.flags,
                             !.modified = IF update_timestamp THEN @ + 1 ELSE @],
         errors |-> errors,
         committed |-> (Len(errors) = 0 /\ modified) \/ update_timestamp]

\* story.update(...); the clock of the model stops at MaxClock.
StoryUpdate(s, a) ==
    /\ pc = "idle"
    /\ StoryUpdateResult(s, a).row.modified <= MaxClock
    /\ stories' = [stories EXCEPT ![s] = StoryUpdateResult(s, a).row]
    /\ ret' = [op |-> "Story.update", args |-> << s, a >>,
               result |-> [errors |-> StoryUpdateResult(s, a).errors,
                           committed |-> StoryUpdateResult(s, a).committed]]
    /\ pc' = "done"
    /\ UNCHANGED <<users, chapters, tags, parser>>

-----------------------------------------------------------------------------
(* The story specification: one story of amy with any flags and up to      *)
(* MaxChapters chapters, each public, private, protected or both; the      *)
(* story is updated again and again.                                       *)

StoryChapterPool ==
    [story_id : {1}, flags : {0, ChapterPRIVATE, ChapterPROTECTED,
                              BitOr(ChapterPRIVATE, ChapterPROTECTED)},
     notes_null : {TRUE}, text : {S_abc}]

StoryUpdateArgs ==
    [title : {JNull, JStr(S_abc), JInt(1)},
     summary : {JNull},
     private : {JNull, JBool(TRUE), JBool(FALSE), JInt(1)},
     protected : {JNull, JBool(TRUE), JBool(FALSE)},
     can_comment : {JNull, JBool(FALSE)},
     is_risque : {JNull, JBool(TRUE)}]

InitStory ==
    /\ users = SearchUsers
    /\ tags = SearchTags
    /\ \E f \in {CAN_COMMENT, BitOr(StoryPRIVATE, CAN_COMMENT)} :
          stories = << [StoryRow(1, f) EXCEPT !.title = S_abd] >>
    /\ \E m \in 0..MaxChapters : \E profiles \in [1..m -> StoryChapterPool] :
          chapters = Indexed(profiles)
    /\ pc = "idle"
    /\ ret = NoCall
    /\ parser = NoParse

NextStory == (pc = "idle" /\ \E a \in StoryUpdateArgs : StoryUpdate(1, a)) \/ Return

SpecStory == InitStory /\ [][NextStory]_vars

-----------------------------------------------------------------------------
(* Claims about Story.update.                                              *)

\* C18: Story.update(private=False) on a private story clears PRIVATE iff the
\* story has a chapter with neither PRIVATE nor PROTECTED set; when it has none
\* the story stays private and no error about "private" is reported;
\* Story.update(private=True) on a story that is not private sets PRIVATE.
C18_Publish ==
    [][(pc = "idle" /\ pc' = "done" /\ ret'.op = "Story.update") =>
          LET s == ret'.args[1]
              a == ret'.args[2]
              was == (stories[s].flags % 2 = 1)
              is  == (stories'[s].flags % 2 = 1)
              public_chapter == \E c \in ChapterIds :
                                   /\ chapters[c].story_id = s
                                   /\ chapters[c].flags % 4 = 0
          IN  /\ (a.private = JBool(FALSE) /\ was) =>
                    /\ ~is <=> public_chapter
                    /\ \A i \in DOMAIN ret'.result.errors :
                          ret'.result.errors[i] # "private"
              /\ (a.private = JBool(TRUE) /\ ~was) => is
              /\ a.private = JNull => (is <=> was)
      ]_vars

\* A private story whose two chapters are private and protected has been asked
\* to go public: it is still private, and the call reported no error.
C18_Witness ==
    /\ pc = "done" /\ ret.op = "Story.update"
    /\ ret.args[2].private = JBool(FALSE)
    /\ StoryPrivate(ret.args[1])
    /\ Cardinality(ChaptersOf(ret.args[1])) = 2
    /\ ret.result.errors = << >>
    /\ ~ret.result.committed

-----------------------------------------------------------------------------
(* filter_text: the six substitutions, innermost first, then strip().  No  *)
(* pattern matches a line feed, so every substitution works line by line.  *)

Occurrences(str, pat) ==
    {i \in 1..(Len(str) - Len(pat) + 1) : SubSeq(str, i, i + Len(pat) - 1) = pat}

SetMin(S) == CHOOSE x \in S : \A y \in S : x <= y
SetMax(S) == CHOOSE x \in S : \A y \in S : x >= y

\* The number of leading characters of str that are in class.
RECURSIVE LeadingRun(_, _)
LeadingRun(str, class) ==
    IF str = << >> \/ Head(str) \notin class THEN 0
    ELSE 1 + LeadingRun(Tail(str), class)

\* str.strip(): spaces and line feeds.
RECURSIVE StripWhite(_)
StripWhite(str) ==
    IF str = << >> THEN str
    ELSE IF Head(str) \in {" ", "\n"} THEN StripWhite(Tail(str))
    ELSE IF str[Len(str)] \in {" ", "\n"} THEN StripWhite(SubSeq(str, 1, Len(str) - 1))
    ELSE str

\* Where a match of  open .* ]( .* )  can start in line, open being "![" or "[".
BracketStarts(line, open) ==
    {i \in Occurrences(line, open) :
        \E k \in Occurrences(line, << "]", "(" >>) :
           /\ k >= i + Len(open)
           /\ \E e \in Occurrences(line, << ")" >>) : e >= k + 2}

\* re.sub(r"!\[.*\]\(.*\)", "", line): both .* are greedy, so the match runs
\* from the first "![" to the last ")" of the line.
ImageSub(line) ==
    IF BracketStarts(line, << "!", "[" >>) = {} THEN line
    ELSE SubSeq(line, 1, SetMin(BracketStarts(line, << "!", "[" >>)) - 1)
         \o SubSeq(line, SetMax(Occurrences(line, << ")" >>)) + 1, Len(line))

\* re.sub("\[(.*)\]\(.*\)", r"\g<1>", line): the group runs from the first "["
\* to the last "](" that a ")" still follows.
LinkSub(line) ==
    IF BracketStarts(line, << "[" >>) = {} THEN line
    ELSE LET i == SetMin(BracketStarts(line, << "[" >>))
             e == SetMax(Occurrences(line, << ")" >>))
             k == SetMax({j \in Occurrences(line, << "]", "(" >>) :
                             j >= i + 1 /\ j + 2 <= e})
         IN  SubSeq(line, 1, i - 1) \o SubSeq(line, i + 1, k - 1)
             \o SubSeq(line, e + 1, Len(line))

\* [0-9A-Z \-_] with re.I
SpanChars ==
    {LowerCase[i] : i \in DOMAIN LowerCase} \cup {UpperCase[i] : i \in DOMAIN UpperCase}
    \cup {Digits[i] : i \in DOMAIN Digits} \cup {" ", "-", "_"}

\* The length of the match of \$\{(?:([0-9A-Z \-_]+)|\/?)\} at the head of
\* str; 0 when there is none.
SpanMatch(str) ==
    IF Len(str) < 3 \/ SubSeq(str, 1, 2) # << "$", "{" >> THEN 0
    ELSE LET run == LeadingRun(SubSeq(str, 3, Len(str)), SpanChars)
         IN  IF run > 0 /\ Len(str) >= run + 3 /\ str[run + 3] = "}" THEN run + 3
             ELSE IF str[3] = "}" THEN 3
             ELSE IF Len(str) >= 4 /\ str[3] = "/" /\ str[4] = "}" THEN 4
             ELSE 0

\* re.sub(span, "", line): every match, left to right.
RECURSIVE SpanSub(_)
SpanSub(line) ==
    IF line = << >> THEN line
    ELSE IF SpanMatch(line) > 0 THEN SpanSub(SubSeq(line, SpanMatch(line) + 1, Len(line)))
    ELSE << Head(line) >> \o SpanSub(Tail(line))

\* re.sub(r"^ *([_*-])(?: *\1){2,}$", "", line): a line of three or more of
\* one rule character, spaces before and between them only.
HrSub(line) ==
    IF \E c \in {"_", "*", "-"} :
          /\ \A i \in DOMAIN line : line[i] \in {" ", c}
          /\ Cardinality({i \in DOMAIN line : line[i] = c}) >= 3
          /\ line[Len(line)] = c
    THEN << >>
    ELSE line

\* re.sub(r"^ *[>*-][ >*-]*(.*)$", r"\g<1>", line)
BulletSub(line) ==
    LET lead == LeadingRun(line, {" "})
    IN  IF Len(line) > lead /\ line[lead + 1] \in {">", "*", "-"}
        THEN LET rest == SubSeq(line, lead + 2, Len(line))
             IN  SubSeq(rest, LeadingRun(rest, {" ", ">", "*", "-"}) + 1, Len(rest))
        ELSE line

\* re.sub(r"^#{1,6} (.*?)$", r"\g<1>", line)
HeadingSub(line) ==
    LET n == LeadingRun(line, {"#"})
    IN  IF n >= 1 /\ n <= 6 /\ Len(line) > n /\ line[n + 1] = " "
        THEN SubSeq(line, n + 2, Len(line))
        ELSE line

FilterLine(line) == HeadingSub(BulletSub(HrSub(SpanSub(LinkSub(ImageSub(line))))))

\* Nothing but strip() is applied.
filter_text_strip_only(string) == StripWhite(string)

filter_text(string) ==
    LET lines == SplitOn(string, "\n")
    IN  StripWhite(Join([i \in DOMAIN lines |-> FilterLine(lines[i])], "\n"))

-----------------------------------------------------------------------------
(* Chapters in one session.  In the chapter specifications the table is a  *)
(* function from the ids in use to rows, and the row of a story has one    *)
(* more field, chapters: the relationship Story.chapters as the session    *)
(* holds it, a list of chapter ids.  The list is read in the order of      *)
(* Chapter.index when it is loaded, and it is loaded again after a commit  *)
(* (the session expires its objects on commit); between commits its order  *)
(* does not follow the indices.  Rows carry no name and no timestamps.     *)

ChapterDEFAULT == ChapterPRIVATE

SessionStory(author, flags, loaded) ==
    [author_id |-> author, flags |-> flags, modified |-> 0, posted |-> 0,
     title |-> S_abd, summary |-> Empty,
     tags |-> {}, favorited_by |-> {}, followed_by |-> {}, chapters |-> loaded]

\* The sequences that list every element of S once.
RECURSIVE Perms(_)
Perms(S) ==
    IF S = {} THEN {<< >>}
    ELSE UNION {{<< x >> \o p : p \in Perms(S \ {x})} : x \in S}

\* The orders in which "ORDER BY chapters.index" may list the chapters of
\* story s held in rows: rows of equal index come in any order.
LoadOrders(rows, s) ==
    {p \in Perms({c \in DOMAIN rows : rows[c].story_id = s}) :
        \A i, j \in DOMAIN p : i < j => rows[p[i]].index <= rows[p[j]].index}

\* list[a:b] of Python, as the set of 1-based positions.
PySlice(n, a, b) ==
    LET lo == IF a < 0 THEN (IF a + n < 0 THEN 0 ELSE a + n) ELSE Min(a, n)
        hi == IF b < 0 THEN (IF b + n < 0 THEN 0 ELSE b + n) ELSE Min(b, n)
    IN  (lo + 1)..hi

\* The index branch moves the chapter and shifts nobody.
MoveWithoutShift(rows, list, c, index) == [rows EXCEPT ![c].index = index]

\* Lines 1660-1671: the chapters of the slice move by one, then the chapter
\* takes the index asked for.
MoveTo(rows, list, c, index) ==
    LET n     == Len(list)
        own   == rows[c].index
        slice == IF index > own THEN PySlice(n, own + 1, index + 1)
                 ELSE PySlice(n, index, own)
        moved == {list[i] : i \in slice}
        step  == IF index > own THEN -1 ELSE 1
    IN  [d \in DOMAIN rows |->
            IF d = c THEN [rows[d] EXCEPT !.index = index]
            ELSE IF d \in moved THEN [rows[d] EXCEPT !.index = @ + step]
            ELSE rows[d]]

\* An emptied text leaves the flags alone.
FlagsAfterTextKept(flags, text) == flags

\* Lines 1646-1648: a text that renders to nothing makes the chapter private.
FlagsAfterText(flags, text) ==
    IF Len(filter_text(text)) = 0 THEN SetFlag(flags, ChapterPRIVATE, TRUE) ELSE flags

\* Chapter.update(None, author_notes, text, index, private, protected) on
\* chapter c: [rows, errors, committed].
ChapterUpdateResult(c, a) ==
    LET row  == chapters[c]
        list == stories[row.story_id].chapters
        \* author_notes
        notes_err == a.author_notes.t \notin {"null", "str"}
        notes_set == a.author_notes.t = "str"
        notes_new == IF notes_set THEN reduce_whitespace(a.author_notes.v) ELSE row.author_notes
        notes_blank == notes_set /\ Len(Strip(a.author_notes.v)) = 0
        notes_mod == notes_set /\ (notes_blank \/ row.notes_null \/ notes_new # row.author_notes)
        \* text
        text_err == a.text.t \notin {"null", "str"}
        text_new == IF a.text.t = "str" THEN StripWhite(a.text.v) ELSE row.text
        update_timestamp == text_new # row.text
        f1 == IF update_timestamp THEN FlagsAfterText(row.flags, text_new) ELSE row.flags
        \* index
        index_err == \/ a.index.t \notin {"null", "int"}
                     \/ a.index.t = "int" /\ (a.index.v < 0 \/ a.index.v >= Len(list))
        index_mod == a.index.t = "int" /\ ~index_err /\ a.index.v # row.index
        \* private
        private_err == a.private.t \notin {"null", "bool"}
        private_mod == /\ a.private.t = "bool"
                       /\ (a.private.v = 1) # (BitAnd(f1, ChapterPRIVATE) # 0)
                       /\ Len(filter_text(text_new)) > 0
        f2 == IF private_mod THEN SetFlag(f1, ChapterPRIVATE, a.private.v = 1) ELSE f1
        \* protected
        protected_err == a.protected.t \notin {"null", "bool"}
        protected_mod == /\ a.protected.t = "bool"
                         /\ (a.protected.v = 1) # (BitAnd(f2, ChapterPROTECTED) # 0)
        f3 == IF protected_mod THEN SetFlag(f2, ChapterPROTECTED, a.protected.v = 1) ELSE f2
        errors == (IF notes_err THEN << "author_notes" >> ELSE << >>)
                  \o (IF text_err THEN << "text" >> ELSE << >>)
                  \o (IF index_err THEN << "index" >> ELSE << >>)
                  \o (IF private_err THEN << "private" >> ELSE << >>)
                  \o (IF protected_err THEN << "protected" >> ELSE << >>)
        modified == notes_mod \/ index_mod \/ private_mod \/ protected_mod
        rows1 == IF index_mod THEN MoveTo(chapters, list, c, a.index.v) ELSE chapters
    IN  [rows |-> [rows1 EXCEPT ![c].text = text_new,
                                ![c].flags = f3,
                                ![c].notes_null = IF notes_set THEN notes_blank ELSE @,
                                ![c].author_notes = IF notes_blank THEN Empty ELSE notes_new],
         errors |-> errors,
         committed |-> (Len(errors) = 0 /\ modified) \/ update_timestamp]

\* chapter.update(...); a commit expires Story.chapters, which is then read
\* again in the order of the indices.
ChapterUpdate(c, a) ==
    /\ pc = "idle"
    /\ chapters' = ChapterUpdateResult(c, a).rows
    /\ IF ChapterUpdateResult(c, a).committed
       THEN \E order \in LoadOrders(chapters', chapters[c].story_id) :
               stories' = [stories EXCEPT ![chapters[c].story_id].chapters = order]
       ELSE stories' = stories
    /\ ret' = [op |-> "Chapter.update", args |-> << c, a >>,
               result |-> [errors |-> ChapterUpdateResult(c, a).errors,
                           committed |-> ChapterUpdateResult(c, a).committed]]
    /\ pc' = "done"
    /\ UNCHANGED <<users, tags, parser>>

\* A key of the table that is not in use (the sequence behind the ids is
\* not modelled).
FreshChapterId == SetMin({k \in 1..(Cardinality(DOMAIN chapters) + 1) : k \notin DOMAIN chapters})

\* Chapter.new(story, None, text): ValueError for a text that is no string;
\* otherwise the chapter is added after the chapters the session lists and
\* committed.
ChapterNew(s, text) ==
    /\ pc = "idle"
    /\ IF text.t # "str"
       THEN /\ ret' = [op |-> "Chapter.new", args |-> << s, text >>,
                       result |-> [status |-> "ValueError", id |-> None]]
            /\ UNCHANGED <<stories, chapters>>
       ELSE /\ chapters' = [d \in DOMAIN chapters \cup {FreshChapterId} |->
                              IF d = FreshChapterId
                              THEN ChapterRow(s, ChapterDEFAULT, Len(stories[s].chapters),
                                              TRUE, Empty, StripWhite(text.v))
                              ELSE chapters[d]]
            /\ \E order \in LoadOrders(chapters', s) :
                  stories' = [stories EXCEPT ![s].chapters = order]
            /\ ret' = [op |-> "Chapter.new", args |-> << s, text >>,
                       result |-> [status |-> "ok", id |-> FreshChapterId]]
    /\ pc' = "done"
    /\ UNCHANGED <<users, tags, parser>>

-----------------------------------------------------------------------------
(* The chapter specification: amy's story starts without chapters; up to   *)
(* MaxTextChapters chapters are created and then updated again and again,  *)
(* every argument of update taking valid and invalid values.               *)

MaxTextChapters == 1

S_image   == << "!", "[", "a", "]", "(", "b", ")" >>                \* ![a](b)
S_heading == << " ", "#", " ", "\n", ">", " ", "-", " ", "[", "]", "(", ")", " " >>

\* Three texts that render to nothing, and one that does not.
ChapterTexts == {Empty, S_image, S_heading, S_abc}

ChapterUpdateArgs ==
    [author_notes : {JNull},
     text : {JNull, JInt(1)} \cup {JStr(text) : text \in ChapterTexts},
     index : {JNull, JInt(1), JBool(FALSE)},
     private : {JNull, JBool(TRUE), JBool(FALSE), JInt(0)},
     protected : {JNull, JBool(TRUE)}]

InitChapter ==
    /\ users = SearchUsers
    /\ tags = SearchTags
    /\ stories = << SessionStory(1, BitOr(StoryPRIVATE, CAN_COMMENT), << >>) >>
    /\ chapters = << >>
    /\ pc = "idle"
    /\ ret = NoCall
    /\ parser = NoParse

NextChapter ==
    \/ /\ pc = "idle"
       /\ Cardinality(DOMAIN chapters) < MaxTextChapters
       /\ \E text \in {JNull} \cup {JStr(t) : t \in ChapterTexts} : ChapterNew(1, text)
    \/ /\ pc = "idle"
       /\ \E c \in DOMAIN chapters : \E a \in ChapterUpdateArgs : ChapterUpdate(c, a)
    \/ Return

SpecChapter == InitChapter /\ [][NextChapter]_vars

Rendered(c) == filter_text(chapters[c].text)

ChapterPrivate(c) == BitAnd(chapters[c].flags, ChapterPRIVATE) # 0

-----------------------------------------------------------------------------
(* Claims about Chapter.update.                                            *)

\* C19: in every state reached by Chapter.new and Chapter.update calls a
\* chapter whose rendered text is empty has PRIVATE set; an update that leaves
\* the rendered text empty leaves PRIVATE set whatever its private argument
\* is, also when it changes the text in the same call; and an update that makes
\* an empty rendered text non-empty without a private argument keeps PRIVATE.
C19_EmptyIsPrivate ==
    /\ [](\A c \in DOMAIN chapters : Len(Rendered(c)) = 0 => ChapterPrivate(c))
    /\ [][(pc = "idle" /\ pc' = "done" /\ ret'.op = "Chapter.update") =>
             LET c == ret'.args[1]
                 a == ret'.args[2]
                 empty_after == Len(filter_text(chapters'[c].text)) = 0
                 private_after == BitAnd(chapters'[c].flags, ChapterPRIVATE) # 0
             IN  /\ empty_after => private_after
                 /\ (Len(Rendered(c)) = 0 /\ ~empty_after /\ a.private = JNull)
                       => private_after
         ]_vars

\* A public chapter was given a text that is only a picture, and asked in the
\* same call to stay public: it is private now.
C19_Witness ==
    /\ pc = "done" /\ ret.op = "Chapter.update"
    /\ ret.args[2].text = JStr(S_image)
    /\ ret.args[2].private = JBool(FALSE)
    /\ ret.result.errors = << >>
    /\ chapters[ret.args[1]].text = S_image
    /\ chapters[ret.args[1]].flags = BitOr(ChapterPRIVATE, ChapterPROTECTED)

\* A private chapter whose text rendered to nothing has a text again, and is
\* still private.
C19_WitnessRefilled ==
    /\ pc = "done" /\ ret.op = "Chapter.update"
    /\ ret.args[2].text = JStr(S_abc)
    /\ ret.args[2].private = JNull
    /\ ret.result.committed
    /\ ChapterPrivate(ret.args[1])

-----------------------------------------------------------------------------
(* remove_chapter (DELETE /api/chapter/<id>).  The request has a session   *)
(* of its own, so Story.chapters is read from the table.  No user of the   *)
(* model is a moderator.                                                   *)

Response(status) == [status |-> status]

remove_chapter(user, chapter_id) ==
    /\ pc = "idle"
    /\ IF user = None
       THEN /\ ret' = [op |-> "remove_chapter", args |-> << user, chapter_id >>,
                       result |-> Response(401)]
            /\ UNCHANGED <<stories, chapters>>
       ELSE IF chapter_id \notin DOMAIN chapters \/ ~ChapterVisible(chapter_id, user, FALSE)
       THEN /\ ret' = [op |-> "remove_chapter", args |-> << user, chapter_id >>,
                       result |-> Response(404)]
            /\ UNCHANGED <<stories, chapters>>
       ELSE IF stories[chapters[chapter_id].story_id].author_id # user
       THEN /\ ret' = [op |-> "remove_chapter", args |-> << user, chapter_id >>,
                       result |-> Response(401)]
            /\ UNCHANGED <<stories, chapters>>
       ELSE LET s == chapters[chapter_id].story_id
            IN  /\ \E list \in LoadOrders(chapters, s) :
                      chapters' =
                         [d \in DOMAIN chapters \ {chapter_id} |->
                            IF \E i \in PySlice(Len(list), chapters[chapter_id].index, Len(list)) :
                                  list[i] = d
                            THEN [chapters[d] EXCEPT !.index = @ - 1]
                            ELSE chapters[d]]
                /\ \E order \in LoadOrders(chapters', s) :
                      stories' = [stories EXCEPT ![s].chapters = order]
                /\ ret' = [op |-> "remove_chapter", args |-> << user, chapter_id >>,
                           result |-> Response(200)]
    /\ pc' = "done"
    /\ UNCHANGED <<users, tags, parser>>

-----------------------------------------------------------------------------
(* The reordering specification: amy's story, public or private, starts    *)
(* with no chapter or with one; chapters are created, moved with           *)
(* update(index = j) for integers j in and out of range and for a value    *)
(* that is no integer, and deleted by anybody.                             *)

MaxOrderChapters == 3

IndexOnly(index) ==
    [author_notes |-> JNull, text |-> JNull, index |-> index,
     private |-> JNull, protected |-> JNull]

IndexValues == {JInt(j) : j \in -1..MaxOrderChapters} \cup {JBool(TRUE)}

InitOrder ==
    /\ users = SearchUsers
    /\ tags = SearchTags
    /\ \E f \in {CAN_COMMENT, BitOr(StoryPRIVATE, CAN_COMMENT)} :
       \E first \in {<< >>} \cup {<< ChapterRow(1, g, 0, TRUE, Empty, S_abc) >> :
                                     g \in {0, ChapterPRIVATE}} :
          /\ chapters = first
          /\ stories = << SessionStory(1, f, [i \in DOMAIN first |-> i]) >>
    /\ pc = "idle"
    /\ ret = NoCall
    /\ parser = NoParse

NextOrder ==
    \/ /\ pc = "idle"
       /\ Cardinality(DOMAIN chapters) < MaxOrderChapters
       /\ \E text \in {JStr(S_abc), JInt(1)} : ChapterNew(1, text)
    \/ /\ pc = "idle"
       /\ \E c \in DOMAIN chapters : \E index \in IndexValues :
             ChapterUpdate(c, IndexOnly(index))
    \/ /\ pc = "idle"
       /\ \E user \in {None, 1, 2} : \E id \in 1..MaxOrderChapters :
             remove_chapter(user, id)
    \/ Return

SpecOrder == InitOrder /\ [][NextOrder]_vars

IndicesOf(s) == {chapters[c].index : c \in ChaptersOf(s)}

-----------------------------------------------------------------------------
(* Claims about the order of the chapters.                                 *)

\* C20: after any sequence of creations, update(index = j) calls and deletions
\* the indices of the n chapters of the story are exactly 0..n-1, each held by
\* one chapter; update(index = j) with 0 <= j < n gives the chapter index j,
\* moves every chapter between its old index i and j by one towards i and
\* leaves the others alone; an index outside 0..n-1 is answered with an error
\* and changes no row.
C20_Indices ==
    /\ [](\A s \in StoryIds :
             /\ IndicesOf(s) = 0..(Cardinality(ChaptersOf(s)) - 1)
             /\ \A c, d \in ChaptersOf(s) :
                   chapters[c].index = chapters[d].index => c = d)
    /\ [][(pc = "idle" /\ pc' = "done" /\ ret'.op = "Chapter.update"
           /\ ret'.args[2].index.t = "int") =>
             LET c == ret'.args[1]
                 j == ret'.args[2].index.v
                 i == chapters[c].index
                 n == Cardinality(ChaptersOf(chapters[c].story_id))
             IN  IF 0 <= j /\ j < n
                 THEN /\ ret'.result.errors = << >>
                      /\ chapters'[c].index = j
                      /\ \A d \in DOMAIN chapters \ {c} :
                            chapters'[d].index =
                               IF i < chapters[d].index /\ chapters[d].index <= j
                               THEN chapters[d].index - 1
                               ELSE IF j <= chapters[d].index /\ chapters[d].index < i
                               THEN chapters[d].index + 1
                               ELSE chapters[d].index
                 ELSE /\ ret'.result.errors = << "index" >>
                      /\ chapters' = chapters
         ]_vars

\* The first of three chapters has been moved to the end: the other two have
\* moved up by one.
C20_Witness ==
    /\ pc = "done" /\ ret.op = "Chapter.update"
    /\ ret.args = << 1, IndexOnly(JInt(2)) >>
    /\ ret.result.errors = << >>
    /\ DOMAIN chapters = {1, 2, 3}
    /\ chapters[1].index = 2 /\ chapters[2].index = 0 /\ chapters[3].index = 1

-----------------------------------------------------------------------------
(* The favorite and follow endpoints (POST and DELETE on                   *)
(* /api/story/<id>/favorite and /api/story/<id>/follow).  The association  *)
(* tables are the fields favorited_by and followed_by of the story.        *)

MaxFavStories == 1

MarkedBy(s, kind) ==
    IF kind = "favorite" THEN stories[s].favorited_by ELSE stories[s].followed_by

\* The membership test is left out: every request goes through.
MarkChangeAlways(marked, user, mark) == TRUE

\* "story not in g.user.favorite_stories" for POST, "story in ..." for DELETE.
MarkChange(marked, user, mark) == IF mark THEN user \notin marked ELSE user \in marked

\* The answer of the endpoint and the set after it: [code, marked].
MarkResult(kind, mark, user, story_id) ==
    IF user = None THEN [code |-> 401, marked |-> {}]
    ELSE IF story_id \notin StoryIds \/ ~StoryVisible(story_id, user, FALSE)
    THEN [code |-> 404, marked |-> {}]
    ELSE IF stories[story_id].author_id = user
    THEN [code |-> 403, marked |-> MarkedBy(story_id, kind)]
    ELSE IF MarkChange(MarkedBy(story_id, kind), user, mark)
    THEN [code |-> 200,
          marked |-> IF mark THEN MarkedBy(story_id, kind) \cup {user}
                     ELSE MarkedBy(story_id, kind) \ {user}]
    ELSE [code |-> 400, marked |-> MarkedBy(story_id, kind)]

\* favorite_story, unfavorite_story, follow_story, unfollow_story.
MarkStory(kind, mark, user, story_id) ==
    /\ pc = "idle"
    /\ stories' =
          IF MarkResult(kind, mark, user, story_id).code # 200 THEN stories
          ELSE IF kind = "favorite"
          THEN [stories EXCEPT ![story_id].favorited_by =
                                   MarkResult(kind, mark, user, story_id).marked]
          ELSE [stories EXCEPT ![story_id].followed_by =
                                   MarkResult(kind, mark, user, story_id).marked]
    /\ ret' = [op |-> kind, args |-> << mark, user, story_id >>,
               result |-> Response(MarkResult(kind, mark, user, story_id).code)]
    /\ pc' = "done"
    /\ UNCHANGED <<users, chapters, tags, parser>>

\* bob's stories: public, private or risque (bob does not allow risque).
InitMark ==
    /\ users = SearchUsers
    /\ tags = SearchTags
    /\ \E n \in 1..MaxFavStories :
          stories \in [1..n -> {StoryRow(2, BitOr(CAN_COMMENT, f)) :
                                   f \in {0, StoryPRIVATE, IS_RISQUE}}]
    /\ chapters = << >>
    /\ pc = "idle"
    /\ ret = NoCall
    /\ parser = NoParse

NextMark ==
    \/ /\ pc = "idle"
       /\ \E kind \in {"favorite", "follow"} : \E mark \in BOOLEAN :
          \E user \in Viewers : \E id \in 1..(MaxFavStories + 1) :
             MarkStory(kind, mark, user, id)
    \/ Return

SpecMark == InitMark /\ [][NextMark]_vars

-----------------------------------------------------------------------------
(* Claims about the favorite and follow endpoints.                         *)

\* C21: an anonymous request is answered 401 whatever the story id is; a
\* missing or invisible story is answered 404; the author of a story he can
\* see is answered 403, and no author is ever in the sets of his story; a
\* marking request is answered 200 iff the user is not yet in the set and 400
\* otherwise, an unmarking request 200 iff he is in the set; every answer but
\* 200 leaves both sets of every story unchanged, and a 200 adds or removes
\* exactly the requester.
C21_MarkStory ==
    /\ [](\A s \in StoryIds :
             stories[s].author_id \notin (stories[s].favorited_by \cup stories[s].followed_by))
    /\ [][(pc = "idle" /\ pc' = "done" /\ ret'.op \in {"favorite", "follow"}) =>
             LET mark == ret'.args[1]
                 user == ret'.args[2]
                 id   == ret'.args[3]
                 code == ret'.result.status
                 Set(rows) == IF ret'.op = "favorite" THEN rows[id].favorited_by
                              ELSE rows[id].followed_by
             IN  /\ user = None => code = 401
                 /\ (user # None /\ (id \notin StoryIds \/ ~StoryVisible(id, user, FALSE)))
                       => code = 404
                 /\ (user # None /\ id \in StoryIds /\ StoryVisible(id, user, FALSE))
                       => IF stories[id].author_id = user THEN code = 403
                          ELSE IF mark
                          THEN (code = 200 <=> user \notin Set(stories))
                               /\ (code # 200 => code = 400)
                          ELSE (code = 200 <=> user \in Set(stories))
                               /\ (code # 200 => code = 400)
                 /\ code # 200 => stories' = stories
                 /\ code = 200 =>
                       /\ Set(stories') = IF mark THEN Set(stories) \cup {user}
                                          ELSE Set(stories) \ {user}
                       /\ \A s \in StoryIds \ {id} : stories'[s] = stories[s]
         ]_vars

\* cyd asked twice to follow bob's public story: the second answer is 400 and
\* cyd is in the set once.
C21_Witness ==
    /\ pc = "done" /\ ret.op = "follow"
    /\ ret.args = << TRUE, 3, 1 >>
    /\ ret.result = Response(400)
    /\ stories[1].followed_by = {3}

-----------------------------------------------------------------------------
(* Claims that compare the visibility of two viewers (SpecVis).            *)

\* C22: in every store, visible_stories(None) is a subset of
\* visible_stories(u) for every user u who does not allow risque, and
\* visible_stories(u) of such a user is a subset of visible_stories(v) for
\* every user v who allows risque.
C22_Monotone ==
    \A u \in UserIds : ~allow_risque(u) =>
       /\ visible_stories(None) \subseteq visible_stories(u)
       /\ \A v \in UserIds : allow_risque(v) =>
             visible_stories(u) \subseteq visible_stories(v)

\* amy, who allows risque, has listed two stories; bob and the anonymous
\* viewer would both be shown the first of them only.
C22_Witness ==
    /\ pc = "done" /\ ret.op = "Story.visible_stories"
    /\ ret.args = << 1 >>
    /\ ret.result = {1, 2}
    /\ visible_stories(2) = {1}
    /\ visible_stories(None) = {1}

-----------------------------------------------------------------------------
(* The whitespace specification: the search page is asked for every query  *)
(* of up to MaxWsPieces pieces, a piece being a space, a tab, a quote, a   *)
(* "!" or the word "abc".                                                  *)

MaxWsPieces == 5

WsPieces == {<< " " >>, << "\t" >>, << "\"" >>, << "!" >>, S_abc}

RECURSIVE WsTexts(_)
WsTexts(n) ==
    IF n = 0 THEN {Empty}
    ELSE {q \o piece : q \in WsTexts(n - 1), piece \in WsPieces}

WsRequests ==
    [user : {None},
     q : {JStr(q) : q \in UNION {WsTexts(k) : k \in 0..MaxWsPieces}},
     offset : {JNull},
     sort_by : {JNull},
     descending : {JNull},
     filter_risque : {JNull}]

NextWs ==
    \/ (pc = "idle" /\ \E req \in WsRequests : SearchPageBegin(req))
    \/ ParseStep
    \/ SearchPageCall

SpecWs == InitParse /\ [][NextWs]_vars

\* The loop of lines 655-733 run to its end.
RECURSIVE ParserRun(_)
ParserRun(p) == IF Len(p.query) = 0 THEN p ELSE ParserRun(ParserTurn(p))

\* What search_page gathers from the text q: whether it parses q at all, and
\* the six sets.
ParsedCriteria(q) ==
    IF Len(Strip(q)) = 0 THEN [parsed |-> FALSE, sets |-> [k \in Criteria |-> {}]]
    ELSE LET p == ParserRun([query |-> reduce_whitespace(q), negate |-> FALSE,
                             args |-> [k \in Criteria |-> {}]])
         IN  [parsed |-> TRUE, sets |-> [k \in Criteria |-> p.args[k]]]

-----------------------------------------------------------------------------
(* Claims about the whitespace of the query.                               *)

\* C23: for every query s the search page has parsed, the six criteria sets
\* it gathered are the sets it gathers from reduce_whitespace(s); and
\* reduce_whitespace(reduce_whitespace(s)) = reduce_whitespace(s).
C23_Whitespace ==
    (pc = "done" /\ ret.op = "search_page") =>
       LET s == ret.args.q.v
       IN  /\ reduce_whitespace(reduce_whitespace(s)) = reduce_whitespace(s)
           /\ (ret.result.status # "blank") = ParsedCriteria(reduce_whitespace(s)).parsed
           /\ ParsedCriteria(reduce_whitespace(s)).sets = [k \in Criteria |-> ret.args[k]]

\* A quoted phrase that starts with three spaces has been parsed: the phrase
\* found has one.
C23_Witness ==
    /\ pc = "done" /\ ret.op = "search_page"
    /\ ret.args.q.v = << "\"", " ", " ", " " >> \o S_abc
    /\ ret.args.include_phrases = {<< " " >> \o S_abc}

-----------------------------------------------------------------------------
(* The short-name specification: the stores of the search page             *)
(* specification; the page is asked for queries of up to MaxShortTokens    *)
(* tokens among user:ab, #ab, user:bob and #abc, plain or negated, and     *)
(* SearchResults is constructed with the same names in its collections.    *)

MaxShortTokens == 2

S_ab      == << "a", "b" >>
T_user_ab == T_user \o << ":" >> \o S_ab                           \* user:ab

ShortTokens ==
    LET plain == {T_user_ab, T_hash_ab, T_user_bob, T_hash_abc}
    IN  plain \cup {<< "!" >> \o tok : tok \in plain}

RECURSIVE ShortQueries(_)
ShortQueries(n) ==
    IF n = 1 THEN ShortTokens
    ELSE {q \o << " " >> \o tok : q \in ShortQueries(n - 1), tok \in ShortTokens}

ShortRequests ==
    [user : {None},
     q : {JStr(q) : q \in UNION {ShortQueries(n) : n \in 1..MaxShortTokens}},
     offset : {JNull},
     sort_by : {JNull},
     descending : {JNull},
     filter_risque : {JNull}]

ShortArgs ==
    [user : {None},
     offset : {JInt(0)},
     count : {JInt(MaxCount)},
     sort_by : {JNull},
     descending : {JBool(TRUE)},
     filter_risque : {JNull},
     include_tags : {{}, {T_hash_ab}, {T_hash_abc}},
     exclude_tags : {{}, {T_hash_ab}},
     include_users : {{}, {S_ab}, {S_bob}},
     exclude_users : {{}, {S_ab}},
     include_phrases : {{}},
     exclude_phrases : {{}}]

NextShort ==
    \/ (pc = "idle" /\ \E req \in ShortRequests : SearchPageBegin(req))
    \/ ParseStep
    \/ SearchPageCall
    \/ (pc = "idle" /\ \E a \in ShortArgs : Search(a))
    \/ Return

SpecShort == InitParse /\ [][NextShort]_vars

\* The query is made of the tokens user:ab and #ab only, plain or negated.
OnlyShortNames(q) ==
    LET words == SplitOn(q, " ")
    IN  \A i \in DOMAIN words :
           words[i] \in {T_user_ab, T_hash_ab, << "!" >> \o T_user_ab, << "!" >> \o T_hash_ab}

-----------------------------------------------------------------------------
(* Claims about names of two characters.                                   *)

-----------------------------------------------------------------------------
(* api_search (GET /api/search).  A key the request body does not carry is *)
(* JNull in json (an empty set for a collection); an exception other than  *)
(* ValueError leaves the handler and is answered 500.                      *)

\* The attributes SearchResults.__init__ assigns (search.py, lines 270-277).
AssignedAttributes == {"num_results", "results", "start", "end"}

\* The attributes SearchResults.to_json reads (lines 287-293).
JsonAttributes == {"query", "results", "num_results", "start", "end"}

ApiResponse(status, res) ==
    [status |-> status, results |-> res.results, num_results |-> res.num_results,
     start |-> res.start, end |-> res.end]

ApiError(status) == ApiResponse(status, Failure("error", << >>))

Default(p, value) == IF p.t = "null" THEN value ELSE p

\* The arguments api_search hands to SearchResults (lines 813-829); user is
\* not None.
ApiArgs(user, json) ==
    [user |-> user,
     offset |-> Default(json.offset, JInt(0)),
     count |-> Default(json.count, JInt(DefaultCount)),
     sort_by |-> json.sort_by,
     descending |-> Default(json.descending, JBool(TRUE)),
     filter_risque |-> IF allow_risque(user) THEN Default(json.filter_risque, JBool(TRUE))
                       ELSE JBool(TRUE),
     include_tags |-> json.include_tags, exclude_tags |-> json.exclude_tags,
     include_users |-> json.include_users, exclude_users |-> json.exclude_users,
     include_phrases |-> json.include_phrases, exclude_phrases |-> json.exclude_phrases]

ApiSearchResult(user, json) ==
    IF ~json.dict THEN ApiError(400)
    ELSE IF user = None THEN ApiError(500)             \* None.allow_risque: AttributeError
    ELSE LET res == SearchResults(ApiArgs(user, json))
         IN  IF res.status = "ValueError" THEN ApiError(400)
             ELSE IF res.status # "ok" THEN ApiError(500)
             ELSE IF ~(JsonAttributes \subseteq AssignedAttributes)
             THEN ApiError(500)                        \* to_json: AttributeError
             ELSE ApiResponse(200, res)

api_search(user, json) ==
    /\ pc = "idle"
    /\ ret' = [op |-> "api_search", args |-> << user, json >>,
               result |-> ApiSearchResult(user, json)]
    /\ pc' = "done"
    /\ UNCHANGED <<users, stories, chapters, tags, parser>>

\* Bodies that are no object, and objects with and without each key.
ApiBodies ==
    [dict : BOOLEAN,
     offset : {JNull, JInt(0), JInt(-1)},
     count : {JNull, JInt(1)},
     sort_by : {JNull, JStr("favorites")},
     descending : {JNull, JBool(FALSE)},
     filter_risque : {JNull, JBool(FALSE)},
     include_tags : {{}, {T_hash_abc}},
     exclude_tags : {{}},
     include_users : {{}, {S_bob}},
     exclude_users : {{}},
     include_phrases : {{}},
     exclude_phrases : {{}}]

NextApi == (pc = "idle" /\ \E user \in Viewers : \E json \in ApiBodies : api_search(user, json))
           \/ Return

SpecApi == InitParse /\ [][NextApi]_vars

\* The arguments of the request pass the validation of SearchResults.
ApiValid(user, json) ==
    /\ json.dict
    /\ ValidationErrors([ApiArgs(1, json) EXCEPT !.user = user]) = << >>

-----------------------------------------------------------------------------
(* Claims about the search API.                                            *)

\* C25: every request to the search API whose fields all pass validation,
\* whoever the viewer is, is answered with a success response that carries
\* the stories of the page, num_results, start and end.
C25_ApiSearch ==
    (pc = "done" /\ ret.op = "api_search" /\ ApiValid(ret.args[1], ret.args[2])) =>
       ret.result.status = 200

\* The part of C25 for viewers who are logged in.
C25_ApiSearchLoggedIn ==
    (pc = "done" /\ ret.op = "api_search" /\ ret.args[1] # None
     /\ ApiValid(ret.args[1], ret.args[2])) =>
       ret.result.status = 200

-----------------------------------------------------------------------------
(* Concurrent Tag.new.  In this specification pc and ret are functions of  *)
(* the request: each of MaxProcs requests runs Tag.new in a session of its *)
(* own, and the look-up of line 896 and the insert with its commit (lines  *)
(* 899-903) are two steps, between which other requests may take theirs.   *)
(* The table "tags" has a primary key and no other constraint (lines       *)
(* 769-783), so an insert is never refused.                                *)

MaxProcs == 2

Procs == 1..MaxProcs

\* Lines 882-897: the arguments are validated and the tag is looked up.
TagNewCheck(p, ttype, name) ==
    /\ pc[p] = "idle"
    /\ Len(tags) < MaxTags
    /\ ret' = [ret EXCEPT ![p] = [op |-> "Tag.new", args |-> << ttype, name >>,
                                  result |-> TagNewResult(ttype, name)]]
    /\ pc' = [pc EXCEPT ![p] = IF TagNewResult(ttype, name).status = "ok"
                               THEN "checked" ELSE "done"]
    /\ UNCHANGED <<users, stories, chapters, tags, parser>>

\* Lines 899-906: the row is added and committed.
TagNewInsert(p) ==
    /\ pc[p] = "checked"
    /\ tags' = tags \o ret[p].result.row
    /\ pc' = [pc EXCEPT ![p] = "done"]
    /\ UNCHANGED <<users, stories, chapters, ret, parser>>

TagNewReturn(p) ==
    /\ pc[p] = "done"
    /\ pc' = [pc EXCEPT ![p] = "idle"]
    /\ ret' = [ret EXCEPT ![p] = NoCall]
    /\ UNCHANGED <<users, stories, chapters, tags, parser>>

InitRace ==
    /\ users = SearchUsers
    /\ tags = << >>
    /\ stories = << >>
    /\ chapters = << >>
    /\ pc = [p \in Procs |-> "idle"]
    /\ ret = [p \in Procs |-> NoCall]
    /\ parser = NoParse

NextRace ==
    \E p \in Procs :
       \/ \E ttype \in {T_genre, T_bogus}, name \in {S_abc, S_abd} : TagNewCheck(p, ttype, name)
       \/ TagNewInsert(p)
       \/ TagNewReturn(p)

SpecRace == InitRace /\ [][NextRace]_vars

-----------------------------------------------------------------------------
(* Claims about concurrent tag creation.                                   *)

\* C26: under every interleaving of concurrent Tag.new calls at most one tag
\* exists for a pair of type and name, and a request whose insert would make a
\* second one ends with "Tag already exists.".
C26_OneTagPerPair ==
    /\ \A i, j \in DOMAIN tags : tags[i] = tags[j] => i = j
    /\ \A p \in Procs :
          (pc[p] = "done" /\ ret[p].result.status = "ok") =>
             Cardinality({i \in DOMAIN tags : tags[i] = ret[p].result.row[1]}) = 1

-----------------------------------------------------------------------------
(* The life of a story: amy's story is as Story.new leaves it, private and *)
(* without chapters; up to MaxLifeChapters chapters are created, the story *)
(* and its chapters are made public and private, texts are replaced and    *)
(* emptied, and chapters are deleted.  Every argument is of its type, so   *)
(* every call that changes a row commits it.                               *)

MaxLifeChapters == 2

LifeStoryArgs ==
    [title : {JNull}, summary : {JNull},
     private : {JNull, JBool(TRUE), JBool(FALSE)},
     protected : {JNull}, can_comment : {JNull}, is_risque : {JNull}]

LifeChapterArgs ==
    [author_notes : {JNull},
     text : {JNull, JStr(Empty), JStr(S_abc)},
     index : {JNull},
     private : {JNull, JBool(TRUE), JBool(FALSE)},
     protected : {JNull, JBool(TRUE), JBool(FALSE)}]

NextLife ==
    \/ /\ pc = "idle"
       /\ Cardinality(DOMAIN chapters) < MaxLifeChapters
       /\ \E text \in {JStr(Empty), JStr(S_abc)} : ChapterNew(1, text)
    \/ /\ pc = "idle"
       /\ \E c \in DOMAIN chapters : \E a \in LifeChapterArgs : ChapterUpdate(c, a)
    \/ /\ pc = "idle"
       /\ \E a \in LifeStoryArgs : StoryUpdate(1, a)
    \/ /\ pc = "idle"
       /\ \E id \in 1..MaxLifeChapters : remove_chapter(1, id)
    \/ Return

SpecLife == InitChapter /\ [][NextLife]_vars

-----------------------------------------------------------------------------
(* Claims about public stories.                                            *)

\* C27: in every state reached from a new story by Story.update, Chapter.new,
\* Chapter.update and the deletion of chapters, a story that is not private
\* has a chapter that is neither private nor protected.
C27_PublicStoryHasPublicChapter ==
    \A s \in DOMAIN stories :
       BitAnd(stories[s].flags, StoryPRIVATE) = 0 =>
          \E c \in ChaptersOf(s) : self_visible(c)

-----------------------------------------------------------------------------
(* Claims that compare the list of visible stories with Story.visible      *)
(* (SpecVis).                                                              *)

\* C28: for every viewer, every story of Story.visible_stories(viewer) is
\* visible to the viewer (ignore_risque false); a story of another author that
\* is visible to the viewer is in the list; and a story that is visible to the
\* viewer and not in the list is the viewer's own and private or protected.
C28_ListRefinesVisible ==
    \A viewer \in Viewers : \A s \in StoryIds :
       /\ s \in visible_stories(viewer) => StoryVisible(s, viewer, FALSE)
       /\ (stories[s].author_id # viewer /\ StoryVisible(s, viewer, FALSE))
             => s \in visible_stories(viewer)
       /\ (StoryVisible(s, viewer, FALSE) /\ s \notin visible_stories(viewer))
             => /\ stories[s].author_id = viewer
                /\ StoryPrivate(s) \/ StoryProtected(s)

\* A user has asked for the list: it holds a story of another author, which
\* the user may see, and lacks the user's own protected story, which the
\* user may see as well.
C28_Witness ==
    /\ pc = "done" /\ ret.op = "Story.visible_stories"
    /\ ret.args[1] # None
    /\ \E s, o \in StoryIds :
          /\ stories[s].author_id = ret.args[1]
          /\ StoryProtected(s) /\ ~StoryPrivate(s)
          /\ StoryVisible(s, ret.args[1], FALSE)
          /\ s \notin ret.result
          /\ stories[o].author_id # ret.args[1]
          /\ StoryVisible(o, ret.args[1], FALSE)
          /\ o \in ret.result

-----------------------------------------------------------------------------
(* Claims about updates that report errors (SpecStory).                    *)

\* The rows the store holds after a call of update: the session's rows when
\* the call committed, the rows of before otherwise.
Persisted(before, after, committed) == IF committed THEN after ELSE before

\* C29: a call of Story.update that returns a non-empty error list persists
\* nothing: every stored field of the story, the modified timestamp included,
\* is as before the call, also when some of the arguments were valid.
C29_ErrorsPersistNothing ==
    [][(pc = "idle" /\ pc' = "done" /\ ret'.op = "Story.update"
        /\ Len(ret'.result.errors) > 0)
          => Persisted(stories, stories', ret'.result.committed) = stories]_vars

-----------------------------------------------------------------------------
(* The paging specification: the search page is asked for one token by     *)
(* nobody and by amy, the request carrying or not a parameter "offset" (a  *)
(* number up to MaxPageOffset, a negative number, a text that is no        *)
(* number) and a parameter "count", which search_page does not read.       *)

MaxPageOffset == 3

OffsetTexts ==
    {<< Digits[n + 1] >> : n \in 0..MaxPageOffset} \cup {<< "-", "1" >>, << "x" >>}

OffsetRequests ==
    [user : {None, 1},
     q : {JStr(q) : q \in QueriesOf(1)},
     offset : {JNull} \cup {JStr(text) : text \in OffsetTexts},
     count : {JNull, JStr(<< "2" >>)},
     sort_by : {JNull},
     descending : {JNull},
     filter_risque : {JNull}]

NextOffset ==
    \/ (pc = "idle" /\ \E req \in OffsetRequests : SearchPageBegin(req))
    \/ ParseStep
    \/ SearchPageCall
    \/ Return

SpecOffset == InitParse /\ [][NextOffset]_vars

-----------------------------------------------------------------------------
(* Claims about the paging of the search page.                             *)

\* C30: for every request to the search page with a query, whatever its
\* offset and count parameters, the count handed to the search is an integer
\* of at least 1, the offset handed over is at least 0, and the search raises
\* no validation error.
C30_PageArguments ==
    (pc = "done" /\ ret.op = "search_page" /\ ret.result.status # "blank") =>
        /\ ret.args.count.t = "int" /\ ret.args.count.v >= 1
        /\ ret.args.offset.t = "int" /\ ret.args.offset.v >= 0
        /\ ret.result.status # "ValueError"

=============================================================================
